---- MODULE Spec2Model ----
(***************************************************************************)
(* A model of three parts of RustPython:                                   *)
(*   - the array type of stdlib/src/array.rs (backing buffer, export       *)
(*     counter, resize guard),                                              *)
(*   - the range type and its iterators of vm/src/builtins/range.rs.       *)
(* Python objects handed to the operations are records [t, n, s]: an int   *)
(* object carries its value in n, a str object its code points in s.       *)
(* An optional value (Rust Option, Python None) is a sequence of length    *)
(* at most one.                                                            *)
(***************************************************************************)
EXTENDS Integers, Sequences, FiniteSets, TLC

VARIABLES
    typecode,   \* PyArray.array: the element kind of the ArrayContentType
    array,      \* PyArray.array: the elements of the backing Vec
    exports,    \* PyArray.exports
    res,        \* the operation of the last step and the error it returned
    scen,       \* history: progress through export / append / release / append
    pc,         \* per thread: the position inside the operation it runs
    lock,       \* PyArray.array's PyRwLock: the writer (0: none) and the readers
    views,      \* per thread: the PyBuffer handles it holds
    ra,         \* a PyRange: [start, stop, step]
    rb,         \* a second PyRange
    rres,       \* the last operation on the ranges and what it returned
    it,         \* a range iterator (PyRangeIterator or PyLongRangeIterator)
    out,        \* what the last serialization of the array produced
    mac         \* the class-definition macro: its nurseries and what it did last

arrayVars == <<typecode, array, exports, res, scen>>
concVars == <<pc, lock, views>>
rangeVars == <<ra, rb, rres, it>>
byteVars == <<out>>
macVars == <<mac>>
vars == <<arrayVars, concVars, rangeVars, byteVars, macVars>>

\* what the steps of each part of the model leave alone
ArrayFrame == <<concVars, rangeVars, byteVars, macVars>>
ConcFrame == <<rangeVars, byteVars, macVars>>
RangeFrame == <<arrayVars, concVars, byteVars, macVars>>
MacFrame == <<arrayVars, concVars, rangeVars, byteVars>>

\* ---------------------------------------------------------------- bounds

MaxLen == 3
MaxExports == 2
NThreads == 2
\* range bounds and steps are drawn from -RangeMax..RangeMax and -StepMax..StepMax
RangeMax == 2
StepMax == 2
\* the width in bits of isize and usize
WordBits == 2

\* ---------------------------------------------------------------- helpers

Min(a, b) == IF a < b THEN a ELSE b
Max(a, b) == IF a > b THEN a ELSE b

None == <<>>
Some(x) == <<x>>

\* PyObjectRef: an int, a str, a list of objects, an array object other than
\* the modelled one, or the modelled array itself
Obj(t, n, s, tc, arr, list) ==
    [t |-> t, n |-> n, s |-> s, tc |-> tc, arr |-> arr, list |-> list]
IntObj(n) == Obj("int", n, <<>>, "", <<>>, <<>>)
\* a float object: n is the high 32 bits of the double, whose low 32 bits are 0
FloatObj(n) == Obj("float", n, <<>>, "", <<>>, <<>>)
StrObj(s) == Obj("str", 0, s, "", <<>>, <<>>)
ListObj(l) == Obj("list", 0, <<>>, "", <<>>, l)
ArrObj(tc, arr) == Obj("array", 0, <<>>, tc, arr, <<>>)
SelfObj == Obj("self", 0, <<>>, "", <<>>, <<>>)

RECURSIVE Pow2(_)
Pow2(n) == IF n = 0 THEN 1 ELSE 2 * Pow2(n - 1)

\* ------------------------------------------------- array: element kinds

\* def_array_enum!: the kinds the model carries (signed byte, unsigned byte,
\* wide character)
Typecodes == {"b", "B", "u"}
\* the kinds the serialization part adds: signed and unsigned 16-bit integers
\* and the 32-bit float, whose elements are carried as their IEEE 754 bits
Kinds == Typecodes \cup {"h", "H", "f"}

itemsize(tc) ==
    CASE tc = "b" -> 1
      [] tc = "B" -> 1
      [] tc = "u" -> 4
      [] tc = "h" -> 2
      [] tc = "H" -> 2
      [] tc = "f" -> 4

IsSigned(tc) == tc \in {"b", "u", "h"}

\* the largest and smallest value of the element type (2^(bits-1) - 1 is written
\* so that no intermediate value exceeds it)
ElemMax(tc) ==
    IF IsSigned(tc)
    THEN 2 * (Pow2(8 * itemsize(tc) - 2) - 1) + 1
    ELSE Pow2(8 * itemsize(tc)) - 1
ElemMin(tc) == IF IsSigned(tc) THEN 0 - ElemMax(tc) - 1 ELSE 0

\* `value as f64` of an f32 given by its bits, as the high word of the double:
\* the exponent is rebiased and the mantissa moves to the top of the wider
\* field (the model's floats are non-negative, normal or NaN or zero, with the
\* three low mantissa bits clear, so that the low word of the double is 0)
f32_as_f64(bits) ==
    LET exp == bits \div Pow2(23)
        mant == bits % Pow2(23)
    IN IF exp = 255 THEN 2047 * Pow2(20) + (mant \div 8)
       ELSE IF exp = 0 THEN 0
       ELSE (exp - 127 + 1023) * Pow2(20) + (mant \div 8)

\* `x as f32` of a double given by its high word: the bits of the f32
f64_as_f32(hi) ==
    LET exp == hi \div Pow2(20)
        mant == hi % Pow2(20)
        e == exp - 1023 + 127
    IN IF exp = 2047 THEN 255 * Pow2(23) + mant * 8
       ELSE IF e >= 255 THEN 255 * Pow2(23)
       ELSE IF e <= 0 THEN 0
       ELSE e * Pow2(23) + mant * 8

\* ArrayElement::try_into_from_object: an integer kind takes an int object that
\* fits the element type; the character kind takes a str of exactly one
\* character; the float kind takes a float object (ArgIntoFloat also takes
\* ints, which the model never passes to a float array).
try_into_from_object(tc, obj) ==
    IF tc = "u"
    THEN IF obj.t = "str" /\ Len(obj.s) = 1
         THEN [ok |-> TRUE, val |-> obj.s[1], err |-> "none"]
         ELSE [ok |-> FALSE, val |-> 0, err |-> "TypeError"]
    ELSE IF tc = "f"
    THEN IF obj.t = "float"
         THEN [ok |-> TRUE, val |-> f64_as_f32(obj.n), err |-> "none"]
         ELSE [ok |-> FALSE, val |-> 0, err |-> "TypeError"]
    ELSE IF obj.t # "int"
         THEN [ok |-> FALSE, val |-> 0, err |-> "TypeError"]
         ELSE IF obj.n < ElemMin(tc) \/ obj.n > ElemMax(tc)
              THEN [ok |-> FALSE, val |-> 0, err |-> "OverflowError"]
              ELSE [ok |-> TRUE, val |-> obj.n, err |-> "none"]

\* The outcome of a method of ArrayContentType: the elements afterwards and the
\* error returned ("none": Ok).
Done(v) == [arr |-> v, err |-> "none"]
Fail(v, e) == [arr |-> v, err |-> e]

\* ---------------------------------------------- array: indices and slices

\* SequenceIndexOp::wrap_index
wrap_index(i, len) ==
    LET j == IF i < 0 THEN i + len ELSE i
    IN IF j >= 0 /\ j < len THEN Some(j) ELSE None

\* SequenceIndexOp::saturated_at
saturated_at(i, len) == IF i < 0 THEN Max(0, len + i) ELSE Min(i, len)

RemoveAt(v, i) == SubSeq(v, 1, i) \o SubSeq(v, i + 2, Len(v))

RECURSIVE Position(_, _, _)
\* Iterator::position over v[k+1 ..]: the 0-based index of the first val, or -1
Position(v, val, k) ==
    IF k >= Len(v) THEN 0 - 1
    ELSE IF v[k + 1] = val THEN k ELSE Position(v, val, k + 1)

\* ------------------------------------------ array: ArrayContentType methods

push(tc, v, obj) ==
    LET c == try_into_from_object(tc, obj)
    IN IF c.ok THEN Done(Append(v, c.val)) ELSE Fail(v, c.err)

pop(v, i) ==
    LET j == wrap_index(i, Len(v))
    IN IF j = None THEN Fail(v, "IndexError") ELSE Done(RemoveAt(v, j[1]))

insert(tc, v, i, obj) ==
    LET c == try_into_from_object(tc, obj)
        k == saturated_at(i, Len(v))
    IN IF c.ok
       THEN Done(SubSeq(v, 1, k) \o <<c.val>> \o SubSeq(v, k + 1, Len(v)))
       ELSE Fail(v, c.err)

remove(tc, v, obj) ==
    LET c == try_into_from_object(tc, obj)
        p == IF c.ok THEN Position(v, c.val, 0) ELSE 0 - 1
    IN IF p >= 0 THEN Done(RemoveAt(v, p)) ELSE Fail(v, "ValueError")

RECURSIVE LEValue(_)
\* the unsigned value of a little-endian chunk of bytes (the host's byte order)
LEValue(c) == IF c = <<>> THEN 0 ELSE c[1] + 256 * LEValue(Tail(c))

\* the element a chunk of itemsize bytes is read as (slice::from_raw_parts)
ElementOfBytes(tc, c) ==
    LET u == LEValue(c)
    IN IF IsSigned(tc) /\ u > ElemMax(tc) THEN u - Pow2(8 * Len(c)) ELSE u

frombytes(tc, v, b) ==
    LET size == itemsize(tc)
        ptr_len == Len(b) \div size
    IN IF Len(b) > 0
       THEN v \o [k \in 1..ptr_len |->
                    ElementOfBytes(tc, SubSeq(b, (k - 1) * size + 1, k * size))]
       ELSE v

fromlist(tc, v, list) ==
    LET conv == [k \in 1..Len(list) |-> try_into_from_object(tc, list[k])]
        bad == {k \in 1..Len(list) : ~conv[k].ok}
    IN IF bad = {}
       THEN Done(v \o [k \in 1..Len(list) |-> conv[k].val])
       ELSE Fail(v, conv[CHOOSE k \in bad : \A j \in bad : k <= j].err)

iadd(tc, v, otc, other) ==
    IF otc = tc THEN Done(v \o other) ELSE Fail(v, "TypeError")

RECURSIVE Repeat(_, _)
Repeat(v, n) == IF n <= 0 THEN <<>> ELSE v \o Repeat(v, n - 1)

imul(v, value) == Done(Repeat(v, value))

delitem_by_index(v, i) ==
    LET j == wrap_index(i, Len(v))
    IN IF j = None THEN Fail(v, "IndexError") ELSE Done(RemoveAt(v, j[1]))

setitem_by_index(tc, v, i, value) ==
    LET c == try_into_from_object(tc, value)
        j == wrap_index(i, Len(v))
    IN IF ~c.ok THEN Fail(v, c.err)
       ELSE IF j = None THEN Fail(v, "IndexError")
       ELSE Done([v EXCEPT ![j[1] + 1] = c.val])

\* PySlice::inner_indices (PySlice_AdjustIndices): the slice [start, stop, step],
\* each optional, normalised against a sequence of the given length
inner_indices(s, length) ==
    LET step == IF s.step = None THEN 1 ELSE s.step[1]
        backwards == step < 0
        lower == IF backwards THEN 0 - 1 ELSE 0
        upper == IF backwards THEN length - 1 ELSE length
        Clamp(x) == IF x < 0 THEN Max(x + length, lower) ELSE Min(x, upper)
        start == IF s.start = None
                 THEN (IF backwards THEN upper ELSE lower)
                 ELSE Clamp(s.start[1])
        stop == IF s.stop = None
                THEN (IF backwards THEN lower ELSE upper)
                ELSE Clamp(s.stop[1])
    IN <<start, stop, step>>

\* SaturatedSlice::adjust_indices: the 0-based positions the slice selects, in
\* the order the slice visits them
adjust_indices(s, len) ==
    LET n == inner_indices(s, len)
        st == n[1]
        sp == n[2]
        step == n[3]
        slice_len == IF step > 0
                     THEN (IF st < sp THEN (sp - st - 1) \div step + 1 ELSE 0)
                     ELSE (IF sp < st THEN (st - sp - 1) \div (0 - step) + 1 ELSE 0)
    IN [k \in 1..slice_len |-> st + (k - 1) * step]

SeqRange(q) == {q[k] : k \in 1..Len(q)}

RECURSIVE DropPositions(_, _, _)
\* v without the elements at the 0-based positions of ps, scanning from index k
DropPositions(v, ps, k) ==
    IF k >= Len(v) THEN <<>>
    ELSE (IF k \in ps THEN <<>> ELSE <<v[k + 1]>>) \o DropPositions(v, ps, k + 1)

delitem_by_slice(v, s) == Done(DropPositions(v, SeqRange(adjust_indices(s, Len(v))), 0))

\* SliceableSequenceMutOp::do_set_indexes
SetPositions(v, ps, items) ==
    [k \in 1..Len(v) |->
        IF k - 1 \in SeqRange(ps)
        THEN items[CHOOSE j \in 1..Len(ps) : ps[j] = k - 1]
        ELSE v[k]]

\* a slice assignment that drops the elements before the slice
setitem_by_slice_DropHead(tc, v, s, otc, items) ==
    LET n == inner_indices(s, Len(v))
        ps == adjust_indices(s, Len(v))
    IN IF otc # tc THEN Fail(v, "TypeError")
       ELSE IF n[3] = 1
       THEN Done(items \o SubSeq(v, Max(n[1], n[2]) + 1, Len(v)))
       ELSE IF Len(ps) = Len(items) THEN Done(SetPositions(v, ps, items))
       ELSE Fail(v, "ValueError")

\* SliceableSequenceMutOp::setitem_by_slice behind ArrayContentType::setitem_by_slice
setitem_by_slice(tc, v, s, otc, items) ==
    LET n == inner_indices(s, Len(v))
        ps == adjust_indices(s, Len(v))
    IN IF otc # tc THEN Fail(v, "TypeError")
       ELSE IF n[3] = 1
       THEN Done(SubSeq(v, 1, n[1]) \o items \o SubSeq(v, Max(n[1], n[2]) + 1, Len(v)))
       ELSE IF Len(ps) = Len(items) THEN Done(SetPositions(v, ps, items))
       ELSE Fail(v, "ValueError")

\* a slice assignment that resizes although a view is exported
setitem_by_slice_no_resize_Resizes(tc, v, s, otc, items) ==
    setitem_by_slice(tc, v, s, otc, items)

setitem_by_slice_no_resize(tc, v, s, otc, items) ==
    LET ps == adjust_indices(s, Len(v))
    IN IF otc # tc THEN Fail(v, "TypeError")
       ELSE IF Len(ps) = Len(items) THEN Done(SetPositions(v, ps, items))
       ELSE Fail(v, "BufferError")

\* BufferResizeGuard::try_resizable_opt: the write guard is handed out only while
\* no buffer view is exported
\* a guard that ignores the export counter
try_resizable_opt_NoCheck(ex) == TRUE

try_resizable_opt(ex) == ex = 0

\* BufferResizeGuard::try_resizable: r is what the caller does with the guard
try_resizable(ex, v, r) == IF try_resizable_opt(ex) THEN r ELSE Fail(v, "BufferError")

RECURSIVE push_all(_, _, _)
\* the loop `for obj in iter { w.push(obj?, vm)?; }` of PyArray::extend
push_all(tc, v, list) ==
    IF list = <<>> THEN Done(v)
    ELSE LET r == push(tc, v, Head(list))
         IN IF r.err = "none" THEN push_all(tc, r.arr, Tail(list)) ELSE r

\* ------------------------------------------------------ array: inputs

Objs == {IntObj(0 - 1), IntObj(1), IntObj(200), StrObj(<<97>>)}
Lists == {<<>>} \cup {<<x>> : x \in Objs} \cup {<<x, y>> : x \in Objs, y \in Objs}
ArrObjs == {ArrObj("b", <<>>), ArrObj("b", <<1>>), ArrObj("B", <<200, 1>>),
            ArrObj("u", <<98>>)}
Values == Objs \cup {ListObj(l) : l \in Lists} \cup ArrObjs \cup {SelfObj}
Indices == (0 - MaxLen)..MaxLen
ByteStrings == {<<>>, <<1>>, <<255>>, <<1, 255>>, <<98, 0, 0, 0>>}
Slice(a, b, c) == [start |-> a, stop |-> b, step |-> c]
Slices == {Slice(None, None, None), Slice(Some(1), None, None),
           Slice(None, Some(0 - 1), None), Slice(Some(1), Some(3), None),
           Slice(Some(2), Some(1), None), Slice(None, None, Some(2)),
           Slice(None, None, Some(0 - 1)), Slice(None, None, Some(0))}
\* a subscript: an int, a slice, or an object that is neither
Needles == {[t |-> "int", i |-> i, s |-> Slice(None, None, None)] : i \in Indices}
           \cup {[t |-> "slice", i |-> 0, s |-> s] : s \in Slices}
           \cup {[t |-> "other", i |-> 0, s |-> Slice(None, None, None)]}

\* SequenceIndex::try_from_borrowed_object: "none", or the error it raises
SequenceIndexErr(needle) ==
    IF needle.t = "other" THEN "TypeError"
    ELSE IF needle.t = "slice" /\ needle.s.step = Some(0) THEN "ValueError"
    ELSE "none"

\* ArgIterable: the objects an iterable yields, or None when it is not iterable
Iterate(obj) ==
    IF obj.t = "list" THEN Some(obj.list)
    ELSE IF obj.t = "str" THEN Some([k \in 1..Len(obj.s) |-> StrObj(<<obj.s[k]>>)])
    ELSE None

RECURSIVE ToLEBytes(_, _)
\* to_ne_bytes on a little-endian host: n bytes of the unsigned value u
ToLEBytes(u, n) == IF n = 0 THEN <<>> ELSE <<u % 256>> \o ToLEBytes(u \div 256, n - 1)

RECURSIVE Flatten(_)
Flatten(ss) == IF ss = <<>> THEN <<>> ELSE Head(ss) \o Flatten(Tail(ss))

\* ------------------------------------------------ array: PyArray methods

\* history of the scenario "export, append x, release, append x": the stage
\* reached, the appended object and the elements before the first append
Track(op, x) ==
    IF op = "as_buffer" /\ exports = 0
    THEN [stage |-> 1, x |-> IntObj(0), snap |-> array]
    ELSE IF op = "append" /\ scen.stage = 1
    THEN [stage |-> 2, x |-> x, snap |-> array]
    ELSE IF op = "release" /\ scen.stage = 2 /\ exports = 1
    THEN [scen EXCEPT !.stage = 3]
    ELSE IF op = "append" /\ scen.stage = 3 /\ x = scen.x
    THEN [scen EXCEPT !.stage = 4]
    ELSE [stage |-> 0, x |-> IntObj(0), snap |-> <<>>]

\* the step of an operation named op, called with x, whose outcome is r
Commit(op, x, r) ==
    /\ Len(r.arr) <= MaxLen
    /\ array' = r.arr
    /\ res' = [op |-> op, err |-> r.err]
    /\ scen' = Track(op, x)
    /\ UNCHANGED <<typecode, exports>>
    /\ UNCHANGED ArrayFrame

append(x) ==
    Commit("append", x, try_resizable(exports, array, push(typecode, array, x)))

remove_(x) ==
    Commit("remove", x, try_resizable(exports, array, remove(typecode, array, x)))

extend_result(obj) ==
    IF obj.t = "self" THEN imul(array, 2)
    ELSE IF obj.t = "array" THEN iadd(typecode, array, obj.tc, obj.arr)
    ELSE IF Iterate(obj) = None THEN Fail(array, "TypeError")
    ELSE push_all(typecode, array, Iterate(obj)[1])

extend(obj) ==
    Commit("extend", obj, try_resizable(exports, array, extend_result(obj)))

\* Wtf8::encode_wide: the UTF-16 units of a code point
encode_wide(cp) ==
    IF cp < 65536 THEN <<cp>>
    ELSE <<55296 + ((cp - 65536) \div 1024), 56320 + ((cp - 65536) % 1024)>>

_unicode_to_wchar_bytes(s, item_size) ==
    IF item_size = 2
    THEN Flatten([k \in 1..Len(s) |->
            Flatten([j \in 1..Len(encode_wide(s[k])) |->
                        ToLEBytes(encode_wide(s[k])[j], 2)])])
    ELSE Flatten([k \in 1..Len(s) |-> ToLEBytes(s[k], 4)])

fromunicode_result(obj) ==
    IF obj.t # "str" THEN Fail(array, "TypeError")
    ELSE IF typecode # "u" THEN Fail(array, "ValueError")
    ELSE try_resizable(exports, array,
            Done(frombytes(typecode, array,
                           _unicode_to_wchar_bytes(obj.s, itemsize(typecode)))))

fromunicode(obj) == Commit("fromunicode", obj, fromunicode_result(obj))

_from_bytes(b) ==
    IF Len(b) % itemsize(typecode) # 0 THEN Fail(array, "ValueError")
    ELSE IF Len(b) \div itemsize(typecode) > 0
    THEN try_resizable(exports, array, Done(frombytes(typecode, array, b)))
    ELSE Done(array)

frombytes_(b) == Commit("frombytes", IntObj(0), _from_bytes(b))

\* a fromfile that does not look at the number of bytes read
fromfile_result_NoEof(n, b, isbytes) ==
    IF n < 0 THEN Fail(array, "ValueError")
    ELSE IF ~isbytes THEN Fail(array, "TypeError")
    ELSE _from_bytes(b)

fromfile_result(n, b, isbytes) ==
    LET n_bytes == n * itemsize(typecode)
        not_enough_bytes == Len(b) # n_bytes
        r == _from_bytes(b)
    IN IF n < 0 THEN Fail(array, "ValueError")
       ELSE IF ~isbytes THEN Fail(array, "TypeError")
       ELSE IF r.err # "none" THEN r
       ELSE IF not_enough_bytes THEN Fail(r.arr, "EOFError")
       ELSE r

fromfile(n, b, isbytes) == Commit("fromfile", IntObj(0), fromfile_result(n, b, isbytes))

insert_(i, x) ==
    Commit("insert", x, try_resizable(exports, array, insert(typecode, array, i, x)))

pop_result(i) ==
    try_resizable(exports, array,
        IF Len(array) = 0 THEN Fail(array, "IndexError") ELSE pop(array, i))

pop_(i) == Commit("pop", IntObj(0), pop_result(i))

fromlist_result(obj) ==
    IF obj.t # "list" THEN Fail(array, "TypeError")
    ELSE try_resizable(exports, array, fromlist(typecode, array, obj.list))

fromlist_(obj) == Commit("fromlist", obj, fromlist_result(obj))

reverse ==
    Commit("reverse", IntObj(0), Done([k \in 1..Len(array) |-> array[Len(array) + 1 - k]]))

setitem_inner(needle, value) ==
    LET items == IF value.t = "self" THEN ArrObj(typecode, array) ELSE value
    IN IF SequenceIndexErr(needle) # "none" THEN Fail(array, SequenceIndexErr(needle))
       ELSE IF needle.t = "int"
       THEN setitem_by_index(typecode, array, needle.i, value)
       ELSE IF items.t # "array" THEN Fail(array, "TypeError")
       ELSE IF try_resizable_opt(exports)
       THEN setitem_by_slice(typecode, array, needle.s, items.tc, items.arr)
       ELSE setitem_by_slice_no_resize(typecode, array, needle.s, items.tc, items.arr)

__setitem__(needle, value) == Commit("__setitem__", value, setitem_inner(needle, value))

delitem_inner(needle) ==
    IF SequenceIndexErr(needle) # "none" THEN Fail(array, SequenceIndexErr(needle))
    ELSE IF needle.t = "int"
    THEN try_resizable(exports, array, delitem_by_index(array, needle.i))
    ELSE try_resizable(exports, array, delitem_by_slice(array, needle.s))

__delitem__(needle) == Commit("__delitem__", IntObj(0), delitem_inner(needle))

iadd_result(other) ==
    IF other.t = "self" THEN try_resizable(exports, array, imul(array, 2))
    ELSE IF other.t = "array"
    THEN try_resizable(exports, array, iadd(typecode, array, other.tc, other.arr))
    ELSE Fail(array, "TypeError")

__iadd__(other) == Commit("__iadd__", other, iadd_result(other))

__imul__(value) ==
    Commit("__imul__", IntObj(0), try_resizable(exports, array, imul(array, value)))

\* AS_MAPPING.ass_subscript: value is None for a deletion
ass_subscript(needle, value) ==
    Commit("ass_subscript", IntObj(0),
           IF value # None THEN setitem_inner(needle, value[1]) ELSE delitem_inner(needle))

\* AS_SEQUENCE.ass_item: value is None for a deletion
ass_item(i, value) ==
    Commit("ass_item", IntObj(0),
           IF value # None
           THEN setitem_by_index(typecode, array, i, value[1])
           ELSE delitem_by_index(array, i))

inplace_concat(other) == Commit("inplace_concat", other, iadd_result(other))

inplace_repeat(n) ==
    Commit("inplace_repeat", IntObj(0), try_resizable(exports, array, imul(array, n)))

\* AsBuffer::as_buffer: PyBuffer::new retains the buffer it creates
as_buffer ==
    /\ exports < MaxExports
    /\ exports' = exports + 1
    /\ res' = [op |-> "as_buffer", err |-> "none"]
    /\ scen' = Track("as_buffer", IntObj(0))
    /\ UNCHANGED <<typecode, array>>
    /\ UNCHANGED ArrayFrame

\* BUFFER_METHODS.release, run when a PyBuffer is dropped
release ==
    /\ exports > 0
    /\ exports' = exports - 1
    /\ res' = [op |-> "release", err |-> "none"]
    /\ scen' = Track("release", IntObj(0))
    /\ UNCHANGED <<typecode, array>>
    /\ UNCHANGED ArrayFrame

\* ------------------------------------------------------- range: values

Range(start, stop, step) == [start |-> start, stop |-> stop, step |-> step]

\* BigInt division truncates toward zero
TruncDiv(a, b) ==
    IF (a >= 0) = (b > 0)
    THEN (IF a >= 0 THEN a \div b ELSE (0 - a) \div (0 - b))
    ELSE 0 - (IF a >= 0 THEN a \div (0 - b) ELSE (0 - a) \div b)

\* a length that rounds the quotient down instead of up
compute_length_Floor(r) ==
    IF r.step > 0 /\ r.start < r.stop
    THEN TruncDiv(r.stop - r.start, r.step)
    ELSE IF r.step < 0 /\ r.start > r.stop
    THEN TruncDiv(r.start - r.stop, 0 - r.step)
    ELSE IF r.step # 0 THEN 0
    ELSE 0 - 1

\* PyRange::compute_length (a step of zero runs into unreachable!(): -1 here)
compute_length(r) ==
    IF r.step > 0 /\ r.start < r.stop
    THEN (IF r.step = 1
          THEN r.stop - r.start
          ELSE TruncDiv(r.stop - r.start - 1, r.step) + 1)
    ELSE IF r.step < 0 /\ r.start > r.stop
    THEN TruncDiv(r.start - r.stop - 1, 0 - r.step) + 1
    ELSE IF r.step # 0 THEN 0
    ELSE 0 - 1

is_empty(r) == compute_length(r) = 0

\* PyRange::get: the element at an index, negative indices counting from the end
get(r, index) ==
    IF is_empty(r) THEN None
    ELSE IF index < 0
    THEN LET i == compute_length(r) + index
         IN IF i < 0 THEN None
            ELSE Some(IF r.step = 1 THEN r.start + i ELSE r.start + r.step * i)
    ELSE LET v == IF r.step = 1 THEN r.start + index ELSE r.start + r.step * index
         IN IF (r.step > 0 /\ r.stop > v) \/ (r.step < 0 /\ r.stop < v)
            THEN Some(v)
            ELSE None

\* a constructor that takes any step
new_from_AnyStep(start, stop, step) ==
    [r |-> Some(Range(start, stop, IF step = None THEN 1 ELSE step[1])), err |-> "none"]

\* PyRange::new_from: the range made, or None with the error
new_from(start, stop, step) ==
    LET st == IF step = None THEN 1 ELSE step[1]
    IN IF st = 0
       THEN [r |-> None, err |-> "ValueError"]
       ELSE [r |-> Some(Range(start, stop, st)), err |-> "none"]

\* a comparison that never compares the lengths
cmp_NoLength(zelf, other, is) ==
    LET lhs_len == compute_length(zelf)
    IN IF is THEN TRUE
       ELSE IF lhs_len = 0 THEN compute_length(other) = 0
       ELSE IF zelf.start # other.start THEN FALSE
       ELSE IF lhs_len = 1 THEN TRUE
       ELSE zelf.step = other.step

\* a comparison of the three fields, stop included
cmp_Fields(zelf, other, is) == is \/ zelf = other

\* Comparable for PyRange::cmp under PyComparisonOp::Eq; is: zelf.is(other)
cmp(zelf, other, is) ==
    LET lhs_len == compute_length(zelf)
    IN IF is THEN TRUE
       ELSE IF lhs_len # compute_length(other) THEN FALSE
       ELSE IF lhs_len = 0 THEN TRUE
       ELSE IF zelf.start # other.start THEN FALSE
       ELSE IF lhs_len = 1 THEN TRUE
       ELSE zelf.step = other.step

\* a hash over the fields of the range, stop included
hash_elements_WithStop(r) == <<Some(r.start), Some(r.stop), Some(r.step)>>

\* the tuple Hashable for PyRange::hash hands to tuple_hash (None: Python's None)
hash_elements(r) ==
    LET length == compute_length(r)
    IN IF length = 0 THEN <<Some(length), None, None>>
       ELSE IF length = 1 THEN <<Some(length), Some(r.start), None>>
       ELSE <<Some(length), Some(r.start), Some(r.step)>>

RECURSIVE tuple_hash(_)
\* tuple_hash: a hash of the elements' hashes, in order
tuple_hash(es) ==
    IF es = <<>> THEN 17
    ELSE LET e == es[Len(es)]
             h == IF e = None THEN 4099 ELSE e[1] % 8191
         IN (31 * tuple_hash(SubSeq(es, 1, Len(es) - 1)) + h) % 8191

hash(r) == tuple_hash(hash_elements(r))

\* a sub-range whose stop is not moved by the range's start
getitem_slice_StopUnshifted(r, s) ==
    LET n == inner_indices(s, compute_length(r))
    IN IF s.step = Some(0)
       THEN [r |-> None, err |-> "ValueError"]
       ELSE [r |-> Some(Range(n[1] * r.step + r.start, n[2] * r.step, n[3] * r.step)),
             err |-> "none"]

\* PyRange::__getitem__ with a slice: the sub-range, or None with the error
getitem_slice(r, s) ==
    LET n == inner_indices(s, compute_length(r))
        sub_step == n[3] * r.step
        sub_start == n[1] * r.step + r.start
        sub_stop == n[2] * r.step + r.start
    IN IF s.step = Some(0)
       THEN [r |-> None, err |-> "ValueError"]
       ELSE [r |-> Some(Range(sub_start, sub_stop, sub_step)), err |-> "none"]

\* ---------------------------------------------------- range: iterators

IsizeMax == Pow2(WordBits - 1) - 1
IsizeMin == 0 - Pow2(WordBits - 1)
UsizeMax == Pow2(WordBits) - 1

\* ToPrimitive::to_isize and to_usize
to_isize(x) == IF x >= IsizeMin /\ x <= IsizeMax THEN Some(x) ELSE None
to_usize(x) == IF x >= 0 /\ x <= UsizeMax THEN Some(x) ELSE None

\* a value of the word's bit pattern read as isize (`as isize`, wrapping arithmetic)
as_isize(x) ==
    LET m == x % Pow2(WordBits)
    IN IF m > IsizeMax THEN m - Pow2(WordBits) ELSE m

NoIter ==
    [rep |-> "none", index |-> 0, start |-> 0, step |-> 1, length |-> 0,
     checks |-> FALSE, range |-> Range(0, 0, 1), n |-> 0, ended |-> FALSE,
     panicked |-> FALSE, last |-> None]

\* Iterable for PyRange::iter. checks: whether the build has overflow-checks on
iter(r, checks) ==
    LET length == compute_length(r)
        fixed == /\ to_isize(r.start) # None
                 /\ to_isize(r.step) # None
                 /\ to_isize(r.stop) # None
                 /\ to_isize(r.start + r.step) # None
    IN [NoIter EXCEPT
          !.rep = IF fixed THEN "fixed" ELSE "long",
          !.start = r.start,
          !.step = r.step,
          !.length = IF fixed
                     THEN (IF to_usize(length) = None THEN 0 ELSE length)
                     ELSE length,
          !.checks = checks,
          !.range = r]

\* IterNext for PyRangeIterator::next and for PyLongRangeIterator::next: the
\* outcome of one call on iterator i: the cursor after fetch_add, the value
\* returned (None: StopIteration) and whether the call panicked on an overflow
next_outcome(i) ==
    LET index == i.index
        after == (i.index + 1) % Pow2(WordBits)
        prod == as_isize(index) * i.step
        sum == i.start + as_isize(prod)
        overflow == to_isize(prod) = None \/ to_isize(sum) = None
    IN IF index >= i.length
       THEN [index |-> after, value |-> None, panic |-> FALSE]
       ELSE IF i.rep = "long"
       THEN [index |-> after, value |-> Some(i.start + index * i.step), panic |-> FALSE]
       ELSE IF overflow /\ i.checks
       THEN [index |-> after, value |-> None, panic |-> TRUE]
       ELSE [index |-> after, value |-> Some(as_isize(sum)), panic |-> FALSE]

\* the state of the range part before any range is made: range(0) twice
RangeIdle ==
    /\ ra = Range(0, 0, 1)
    /\ rb = Range(0, 0, 1)
    /\ rres = [op |-> "new", err |-> "none", b |-> FALSE, n |-> <<>>,
               r |-> Range(0, 0, 1), s |-> Slice(None, None, None),
               t |-> Slice(None, None, None)]
    /\ it = NoIter

\* GetSetNursery::default, MemberNursery::default: no entry, not validated
EmptyNursery == [map |-> {}, validated |-> FALSE]

\* nothing has been done in the macro
NoLast == [op |-> "none", err |-> "none", errs |-> {}, installs |-> <<>>]

\* no definition is being expanded
NoDef == [phase |-> "idle", kind |-> "none", is_main |-> FALSE,
          has_extend_slots |-> FALSE, n |-> 0, withs |-> <<>>]

\* no expansion has been produced
NoTokens == [status |-> "none", extend_impl |-> <<>>, slots_impl |-> <<>>,
             setup_attrs |-> <<>>, setup_slots |-> <<>>, diags |-> <<>>]

\* ImplContext::default, before any item of a definition is processed: gs,
\* mb, ext, slots, hooks and errors are getset_items, member_items,
\* impl_extend_items, extend_slots_items, class_extensions and errors; vrun
\* is the outcomes of the validations of the GetSet nursery made in a row
MacIdle == [gs |-> EmptyNursery, mb |-> EmptyNursery, last |-> NoLast, vrun |-> <<>>,
            ext |-> <<>>, slots |-> <<>>, hooks |-> <<>>, errors |-> <<>>,
            def |-> NoDef, tokens |-> NoTokens]

\* nothing has been serialized
NoOut ==
    [op |-> "none", tc |-> "", src |-> <<>>, code |-> 0, bytes |-> <<>>,
     list |-> <<>>, err |-> "none", args |-> <<>>]

\* no thread is inside an operation
ConcIdle ==
    /\ pc = [t \in 1..NThreads |-> [at |-> "idle", x |-> IntObj(0), i |-> 0]]
    /\ lock = [writer |-> 0, readers |-> {}]
    /\ views = [t \in 1..NThreads |-> 0]

\* Constructor::py_new with a type code and no initializer, one thread
Init ==
    /\ typecode \in Typecodes
    /\ array = <<>>
    /\ exports = 0
    /\ res = [op |-> "new", err |-> "none"]
    /\ scen = [stage |-> 0, x |-> IntObj(0), snap |-> <<>>]
    /\ out = NoOut
    /\ mac = MacIdle
    /\ ConcIdle
    /\ RangeIdle

Next ==
    \/ \E x \in Objs : append(x)
    \/ \E x \in Objs : remove_(x)
    \/ \E obj \in Values : extend(obj)
    \/ \E obj \in Objs : fromunicode(obj)
    \/ \E b \in ByteStrings : frombytes_(b)
    \/ \E n \in (0 - 1)..1, b \in ByteStrings, isbytes \in BOOLEAN : fromfile(n, b, isbytes)
    \/ \E i \in Indices, x \in Objs : insert_(i, x)
    \/ \E i \in Indices : pop_(i)
    \/ \E obj \in Values : fromlist_(obj)
    \/ reverse
    \/ \E needle \in Needles, value \in Objs \cup ArrObjs \cup {SelfObj} :
            __setitem__(needle, value)
    \/ \E needle \in Needles : __delitem__(needle)
    \/ \E other \in Objs \cup ArrObjs \cup {SelfObj} : __iadd__(other)
    \/ \E value \in (0 - 1)..2 : __imul__(value)
    \/ \E needle \in Needles, value \in {None} \cup {Some(v) : v \in Objs \cup ArrObjs} :
            ass_subscript(needle, value)
    \/ \E i \in Indices, value \in {None} \cup {Some(v) : v \in Objs} : ass_item(i, value)
    \/ \E other \in ArrObjs \cup {SelfObj} : inplace_concat(other)
    \/ \E n \in (0 - 1)..2 : inplace_repeat(n)
    \/ as_buffer
    \/ release

Spec == Init /\ [][Next]_vars

\* a program that appends, pops, exports views and drops them
NextExport ==
    \/ \E x \in Objs : append(x)
    \/ \E i \in Indices : pop_(i)
    \/ as_buffer
    \/ release

SpecExport == Init /\ [][NextExport]_vars

\* ------------------------------------------- array: threads and the lock

Threads == 1..NThreads
Idle == [at |-> "idle", x |-> IntObj(0), i |-> 0]

\* PyArray::write: the PyRwLock is taken for writing by an operation that then
\* runs try_resizable (append, __delitem__) or mutates at once (ass_item)
WriteLock(t, op, x, i) ==
    /\ pc[t].at = "idle"
    /\ lock.writer = 0
    /\ lock.readers = {}
    /\ lock' = [lock EXCEPT !.writer = t]
    /\ pc' = [pc EXCEPT ![t] = [at |-> op, x |-> x, i |-> i]]
    /\ UNCHANGED <<typecode, array, exports, res, scen, views>>
    /\ UNCHANGED ConcFrame

\* try_resizable_opt after self.write(): exports is loaded under the write lock;
\* the guard is kept if it is zero and dropped otherwise
LoadExports(t) ==
    /\ pc[t].at \in {"append", "__delitem__"}
    /\ lock.writer = t
    /\ IF try_resizable_opt(exports)
       THEN /\ pc' = [pc EXCEPT ![t].at = "resizable"]
            /\ UNCHANGED <<lock, res>>
       ELSE /\ pc' = [pc EXCEPT ![t] = Idle]
            /\ lock' = [lock EXCEPT !.writer = 0]
            /\ res' = [op |-> pc[t].at, err |-> "BufferError"]
    /\ UNCHANGED <<typecode, array, exports, scen, views>>
    /\ UNCHANGED ConcFrame

\* the mutation under the write guard, which is dropped when the method returns
Mutate(t) ==
    /\ pc[t].at \in {"resizable", "ass_item"}
    /\ lock.writer = t
    /\ LET r == IF pc[t].at = "ass_item" \/ pc[t].x = IntObj(0)
                THEN delitem_by_index(array, pc[t].i)
                ELSE push(typecode, array, pc[t].x)
       IN /\ Len(r.arr) <= MaxLen
          /\ array' = r.arr
          /\ res' = [op |-> pc[t].at, err |-> r.err]
    /\ lock' = [lock EXCEPT !.writer = 0]
    /\ pc' = [pc EXCEPT ![t] = Idle]
    /\ UNCHANGED <<typecode, exports, scen, views>>
    /\ UNCHANGED ConcFrame

\* as_buffer: zelf.read()
ReadLock(t) ==
    /\ pc[t].at = "idle"
    /\ lock.writer = 0
    /\ exports < MaxExports
    /\ lock' = [lock EXCEPT !.readers = @ \cup {t}]
    /\ pc' = [pc EXCEPT ![t].at = "as_buffer"]
    /\ UNCHANGED <<typecode, array, exports, res, scen, views>>
    /\ UNCHANGED ConcFrame

\* as_buffer: PyBuffer::new, whose retain adds one to exports
Retain(t) ==
    /\ pc[t].at = "as_buffer"
    /\ exports' = exports + 1
    /\ views' = [views EXCEPT ![t] = @ + 1]
    /\ pc' = [pc EXCEPT ![t].at = "as_buffer_return"]
    /\ UNCHANGED <<typecode, array, lock, res, scen>>
    /\ UNCHANGED ConcFrame

\* as_buffer returns: the read guard is dropped
ReadUnlock(t) ==
    /\ pc[t].at = "as_buffer_return"
    /\ lock' = [lock EXCEPT !.readers = @ \ {t}]
    /\ pc' = [pc EXCEPT ![t] = Idle]
    /\ res' = [op |-> "as_buffer", err |-> "none"]
    /\ UNCHANGED <<typecode, array, exports, scen, views>>
    /\ UNCHANGED ConcFrame

\* a PyBuffer is dropped: BUFFER_METHODS.release, outside any lock
Release(t) ==
    /\ pc[t].at = "idle"
    /\ views[t] > 0
    /\ exports' = exports - 1
    /\ views' = [views EXCEPT ![t] = @ - 1]
    /\ res' = [op |-> "release", err |-> "none"]
    /\ UNCHANGED <<typecode, array, lock, pc, scen>>
    /\ UNCHANGED ConcFrame

\* an array of signed bytes built from an initializer, shared by the threads
InitConc ==
    /\ typecode = "b"
    /\ array \in {<<>>, <<1>>, <<1, 0 - 1>>}
    /\ exports = 0
    /\ res = [op |-> "new", err |-> "none"]
    /\ scen = [stage |-> 0, x |-> IntObj(0), snap |-> <<>>]
    /\ out = NoOut
    /\ mac = MacIdle
    /\ ConcIdle
    /\ RangeIdle

NextConc ==
    \E t \in Threads :
        \/ \E x \in {IntObj(1), IntObj(200)} : WriteLock(t, "append", x, 0)
        \/ \E i \in {0, 0 - 1} : WriteLock(t, "__delitem__", IntObj(0), i)
        \/ \E i \in {0, 0 - 1} : WriteLock(t, "ass_item", IntObj(0), i)
        \/ LoadExports(t)
        \/ Mutate(t)
        \/ ReadLock(t)
        \/ Retain(t)
        \/ ReadUnlock(t)
        \/ Release(t)

SpecConc == InitConc /\ [][NextConc]_vars

\* ------------------------------------------------------- array: claims

\* C1: while the export counter is greater than zero no operation changes the
\* array's length: every step taken with exports > 0 leaves Len(array) as it was.
C1_LengthFixedWhileExported == [][exports > 0 => Len(array') = Len(array)]_vars

\* C2: starting with no exports, an append made while a view is exported fails
\* with BufferError and leaves the array unchanged (stage 2); once that view is
\* released the counter is zero again (stage 3) and the same append, of an object
\* the element kind accepts, succeeds and makes the array one element longer
\* (stage 4).
C2_AppendFailsExportedThenSucceeds ==
    /\ scen.stage = 2 => (res.err = "BufferError" /\ array = scen.snap)
    /\ scen.stage = 3 => (exports = 0 /\ array = scen.snap)
    /\ (scen.stage = 4 /\ try_into_from_object(typecode, scen.x).ok)
          => (res.err = "none" /\ Len(array) = Len(scen.snap) + 1)

C2_Witness ==
    /\ scen.stage = 4
    /\ res = [op |-> "append", err |-> "none"]
    /\ Len(array) = Len(scen.snap) + 1

\* C3: under every interleaving of threads that resize and threads that export,
\* the length of the backing buffer changes only in steps taken with exports = 0.
C3_NoResizeWhileExported == [][Len(array') # Len(array) => exports = 0]_vars

\* C4: a bulk operation (extend, fromlist) that returns an error leaves the
\* array's contents and length exactly as they were before the call.
C4_BulkFailureLeavesArray ==
    [][(res'.op \in {"extend", "fromlist"} /\ res'.err # "none") => array' = array]_vars

\* ------------------------------------------------ range: operations

RangeVals == (0 - RangeMax)..RangeMax
RangeSteps == ((0 - StepMax)..StepMax) \ {0}
\* the ranges range(start, stop, step) constructs
Ranges ==
    {new_from(a, b, Some(c)).r[1] : a \in RangeVals, b \in RangeVals, c \in RangeSteps}

SliceBounds == {None, Some(0 - 2), Some(0), Some(1), Some(3)}
SliceSteps == {None, Some(0 - 2), Some(0 - 1), Some(1), Some(2), Some(0)}
RSlices == {Slice(a, b, c) : a \in SliceBounds, b \in SliceBounds, c \in SliceSteps}
RSlices2 ==
    {Slice(None, None, None), Slice(None, None, Some(0 - 1)), Slice(Some(1), None, None),
     Slice(None, Some(0 - 1), None), Slice(Some(0 - 2), None, Some(2)),
     Slice(Some(3), Some(0), Some(0 - 2)), Slice(Some(0), Some(1), None),
     Slice(None, None, Some(0)), Slice(Some(1), Some(3), Some(2)),
     Slice(None, Some(0 - 2), Some(0 - 1)), Slice(Some(0 - 2), Some(3), None),
     Slice(None, None, Some(2))}

RangeResult(op, err, b, n, r, s, t) ==
    [op |-> op, err |-> err, b |-> b, n |-> n, r |-> r, s |-> s, t |-> t]

\* PyRange::__len__ of ra
range_len ==
    /\ rres' = RangeResult("__len__", "none", FALSE, <<compute_length(ra)>>, ra,
                           rres.s, rres.t)
    /\ UNCHANGED <<ra, rb, it>>
    /\ UNCHANGED RangeFrame

\* ra == rb, or ra == ra when is
range_eq(is) ==
    LET other == IF is THEN ra ELSE rb
    IN /\ rres' = RangeResult("__eq__", "none", cmp(ra, other, is), <<>>, other,
                              rres.s, rres.t)
       /\ UNCHANGED <<ra, rb, it>>
       /\ UNCHANGED RangeFrame

\* hash(ra) and hash(rb)
range_hash ==
    /\ rres' = RangeResult("__hash__", "none", FALSE, <<hash(ra), hash(rb)>>, rb,
                           rres.s, rres.t)
    /\ UNCHANGED <<ra, rb, it>>
    /\ UNCHANGED RangeFrame

\* ra[s]
range_getitem(s) ==
    /\ rres.op = "new"
    /\ LET g == getitem_slice(ra, s)
       IN rres' = RangeResult("getitem", g.err, FALSE, <<>>,
                              IF g.r = None THEN ra ELSE g.r[1], s, rres.t)
    /\ UNCHANGED <<ra, rb, it>>
    /\ UNCHANGED RangeFrame

\* ra[s][t]: a slice of the range the last step returned
range_getitem2(t) ==
    /\ rres.op = "getitem"
    /\ rres.err = "none"
    /\ LET g == getitem_slice(rres.r, t)
       IN rres' = RangeResult("getitem2", g.err, FALSE, <<>>,
                              IF g.r = None THEN rres.r ELSE g.r[1], rres.s, t)
    /\ UNCHANGED <<ra, rb, it>>
    /\ UNCHANGED RangeFrame

\* iter(ra)
range_iter(checks) ==
    /\ it.rep = "none"
    /\ it' = iter(ra, checks)
    /\ UNCHANGED <<ra, rb, rres>>
    /\ UNCHANGED RangeFrame

\* next(it); n counts the values returned before the first StopIteration
range_next ==
    /\ it.rep # "none"
    /\ ~it.panicked
    /\ it.n <= it.length
    /\ LET o == next_outcome(it)
       IN it' = [it EXCEPT
                    !.index = o.index,
                    !.last = o.value,
                    !.panicked = o.panic,
                    !.n = IF ~it.ended /\ o.value # None THEN it.n + 1 ELSE it.n,
                    !.ended = it.ended \/ (o.value = None /\ ~o.panic)]
    /\ UNCHANGED <<ra, rb, rres>>
    /\ UNCHANGED RangeFrame

\* the array part and the threads while the ranges are exercised
ArrayIdle ==
    /\ typecode = "b"
    /\ array = <<>>
    /\ exports = 0
    /\ res = [op |-> "new", err |-> "none"]
    /\ scen = [stage |-> 0, x |-> IntObj(0), snap |-> <<>>]
    /\ out = NoOut
    /\ mac = MacIdle
    /\ ConcIdle

\* two ranges, compared and hashed
InitRange ==
    /\ ArrayIdle
    /\ ra \in Ranges
    /\ rb \in Ranges
    /\ rres = RangeResult("new", "none", FALSE, <<>>, Range(0, 0, 1),
                          Slice(None, None, None), Slice(None, None, None))
    /\ it = NoIter

NextRange ==
    \/ range_len
    \/ \E is \in BOOLEAN : range_eq(is)
    \/ range_hash

SpecRange == InitRange /\ [][NextRange]_vars

\* one range, sliced and sliced again
InitSlice == InitRange /\ rb = Range(0, 0, 1)

NextSlice ==
    \/ \E s \in RSlices : range_getitem(s)
    \/ \E t \in RSlices2 : range_getitem2(t)

SpecSlice == InitSlice /\ [][NextSlice]_vars

\* one range, iterated
NextIter ==
    \/ \E checks \in BOOLEAN : range_iter(checks)
    \/ range_next

SpecIter == InitSlice /\ [][NextIter]_vars

\* ------------------------------------------------------- range: claims

\* the element sequence of a range: its items at the indices below its length
Elements(r) == [k \in 1..compute_length(r) |-> get(r, k - 1)]

\* the slice s of a sequence q
SliceSeq(q, s) ==
    LET ps == adjust_indices(s, Len(q))
    IN [k \in 1..Len(ps) |-> q[ps[k] + 1]]

Sign(x) == IF x > 0 THEN 1 ELSE IF x < 0 THEN 0 - 1 ELSE 0
Abs(x) == IF x < 0 THEN 0 - x ELSE x

\* ceil(a / b) for b # 0: the integer q with q - 1 < a / b <= q
CeilDiv(a, b) ==
    CHOOSE q \in (0 - Abs(a))..Abs(a) :
        IF b > 0 THEN (q - 1) * b < a /\ a <= q * b
                 ELSE (q - 1) * b > a /\ a >= q * b

\* C5: a fresh iterator over a range returns, before its first StopIteration,
\* as many values as the range's computed length: never more, and exactly that
\* many once it has reported the end.
C5_IterationCountIsLength ==
    it.rep # "none" =>
        /\ it.n <= compute_length(it.range)
        /\ it.ended => it.n = compute_length(it.range)

\* C6: the length of a range is ceil((stop - start) / step) when stop - start is
\* nonzero and has the sign of step, zero otherwise, and never negative.
C6_LengthIsCeiling ==
    rres.op = "__len__" =>
        /\ rres.n[1] >= 0
        /\ rres.n[1] = IF ra.stop # ra.start /\ Sign(ra.stop - ra.start) = Sign(ra.step)
                       THEN CeilDiv(ra.stop - ra.start, ra.step)
                       ELSE 0

C6_Witness ==
    /\ rres.op = "__len__"
    /\ ra = Range(2, 0 - 1, 0 - 2)
    /\ rres.n = <<2>>

\* C7 as stated: two ranges of length 0 are equal; two ranges of length 1 are
\* equal iff their starts match; otherwise two ranges are equal iff their start
\* and step match, stop taking no part.
C7_EqualityIgnoresStop ==
    rres.op = "__eq__" =>
        LET la == compute_length(ra)
            lb == compute_length(rres.r)
        IN rres.b = IF la = 0 /\ lb = 0 THEN TRUE
                    ELSE IF la = 1 /\ lb = 1 THEN ra.start = rres.r.start
                    ELSE ra.start = rres.r.start /\ ra.step = rres.r.step

\* C7 amended: two ranges of different lengths are never equal; two ranges of
\* the same length are equal always when that length is 0, iff their starts match
\* when it is 1, and iff their start and step match when it is 2 or more.
C7_EqualityByLengthStartStep ==
    rres.op = "__eq__" =>
        LET la == compute_length(ra)
            lb == compute_length(rres.r)
        IN rres.b = IF la # lb THEN FALSE
                    ELSE IF la = 0 THEN TRUE
                    ELSE IF la = 1 THEN ra.start = rres.r.start
                    ELSE ra.start = rres.r.start /\ ra.step = rres.r.step

C7_Witness ==
    /\ rres.op = "__eq__"
    /\ ~rres.b
    /\ ra.start = rres.r.start
    /\ ra.step = rres.r.step
    /\ compute_length(ra) >= 2
    /\ compute_length(rres.r) > compute_length(ra)

\* C8: two ranges compare equal iff they have the same element sequence.
C8_EqualIffSameElements ==
    rres.op = "__eq__" => (rres.b <=> Elements(ra) = Elements(rres.r))

C8_Witness ==
    /\ rres.op = "__eq__"
    /\ rres.b
    /\ ra.stop # rres.r.stop
    /\ Len(Elements(ra)) >= 2

\* C9: two ranges that compare equal have equal hashes.
C9_EqualRangesHashEqual ==
    rres.op = "__hash__" => (cmp(ra, rb, FALSE) => rres.n[1] = rres.n[2])

C9_Witness ==
    /\ rres.op = "__hash__"
    /\ compute_length(ra) = 0
    /\ compute_length(rb) = 0
    /\ ra.start # rb.start
    /\ ra.step # rb.step
    /\ rres.n[1] = rres.n[2]

\* C10: r[s] is a range whose elements are the slice s of r's elements; the full
\* slice gives a range equal to r; and r[s][t] has the elements of r at the
\* positions that t selects among the positions that s selects.
C10_SliceOfRange ==
    /\ (rres.op = "getitem" /\ rres.err = "none") =>
          /\ Elements(rres.r) = SliceSeq(Elements(ra), rres.s)
          /\ rres.s = Slice(None, None, None) => cmp(rres.r, ra, FALSE)
    /\ (rres.op = "getitem2" /\ rres.err = "none") =>
          LET ps == adjust_indices(rres.s, compute_length(ra))
              composed == SliceSeq(ps, rres.t)
          IN /\ Elements(rres.r) = SliceSeq(SliceSeq(Elements(ra), rres.s), rres.t)
             /\ Elements(rres.r) = [k \in 1..Len(composed) |-> Elements(ra)[composed[k] + 1]]

C10_Witness ==
    /\ rres.op = "getitem2"
    /\ rres.err = "none"
    /\ rres.s.step = Some(0 - 1)
    /\ rres.t.step = Some(2)
    /\ ra.step = 0 - 1
    /\ Len(Elements(rres.r)) >= 2

\* -------------------------------------------------- range: membership

\* Integer::is_multiple_of for a divisor that is not zero
is_multiple_of(a, b) == a % (IF b < 0 THEN 0 - b ELSE b) = 0

\* an offset that takes stop itself as inside the range
offset_StopInclusive(r, value) ==
    IF r.step > 0 /\ value >= r.start /\ value <= r.stop THEN Some(value - r.start)
    ELSE IF r.step < 0 /\ value <= r.start /\ value >= r.stop THEN Some(r.start - value)
    ELSE None

\* PyRange::offset: the distance of value from start, when it lies on the side
\* of start the step moves to and before stop
offset(r, value) ==
    IF r.step > 0 /\ value >= r.start /\ value < r.stop THEN Some(value - r.start)
    ELSE IF r.step < 0 /\ value <= r.start /\ value > r.stop THEN Some(r.start - value)
    ELSE None

\* PyRange::index_of
index_of(r, value) ==
    LET o == offset(r, value)
    IN IF o # None /\ is_multiple_of(o[1], r.step)
       THEN Some(IF r.step < 0 THEN o[1] \div (0 - r.step) ELSE o[1] \div r.step)
       ELSE None

RECURSIVE Drain(_, _)
\* the values the next k calls of next return on iterator i, up to the first
\* call that returns none
Drain(i, k) ==
    IF k = 0 THEN <<>>
    ELSE LET o == next_outcome(i)
         IN IF o.value = None THEN <<>>
            ELSE <<o.value[1]>> \o Drain([i EXCEPT !.index = o.index], k - 1)

\* iter_search: the linear scan over a fresh iterator (wrapping arithmetic),
\* comparing each element with an item that is equal to the integer n; the
\* 0-based position of the first match, or -1
iter_search(r, n) == Position(Drain(iter(r, FALSE), compute_length(r)), n, 0)

\* a probe: an object equal to the integer n, an exact int or of another type
Probe(n, exact) == [n |-> n, exact |-> exact]
Probes ==
    {Probe(n, e) : n \in (0 - RangeMax - 1)..(RangeMax + 1), e \in BOOLEAN}

\* Py<PyRange>::contains_inner
contains_inner(r, needle) ==
    IF needle.exact
    THEN LET o == offset(r, needle.n)
         IN IF o # None THEN is_multiple_of(o[1], r.step) ELSE FALSE
    ELSE iter_search(r, needle.n) >= 0

\* needle in ra
range_contains(needle) ==
    /\ rres' = RangeResult("__contains__", "none", contains_inner(ra, needle),
                           <<needle.n, IF needle.exact THEN 1 ELSE 0>>, ra,
                           rres.s, rres.t)
    /\ UNCHANGED <<ra, rb, it>>
    /\ UNCHANGED RangeFrame

\* ra.index(needle) for an int (of any subclass): the index, or a ValueError
range_index(needle) ==
    /\ LET i == index_of(ra, needle.n)
       IN rres' = RangeResult("index", IF i = None THEN "ValueError" ELSE "none",
                              i # None, i, ra, rres.s, rres.t)
    /\ UNCHANGED <<ra, rb, it>>
    /\ UNCHANGED RangeFrame

NextMember ==
    \/ \E needle \in Probes : range_contains(needle)
    \/ \E needle \in Probes : range_index(needle)

SpecMember == InitSlice /\ [][NextMember]_vars

\* C11: for an exact integer v, v in r is true exactly when v is one of the
\* elements of r, which are the values that iterating r produces.
C11_ContainsIffElement ==
    (rres.op = "__contains__" /\ rres.n[2] = 1) =>
        /\ rres.b <=> \E k \in 1..compute_length(ra) : Elements(ra)[k] = Some(rres.n[1])
        /\ rres.b <=> \E k \in 1..compute_length(ra) :
                          /\ k <= Len(Drain(iter(ra, FALSE), compute_length(ra)))
                          /\ Drain(iter(ra, FALSE), compute_length(ra))[k] = rres.n[1]

C11_Witness ==
    /\ rres.op = "__contains__"
    /\ rres.n[2] = 1
    /\ rres.b
    /\ ra.step = 0 - 2
    /\ rres.n[1] # ra.start

\* ---------------------------------------- range: the ways to make a range

\* PyRange::new: range(stop)
new(stop) == Range(0, stop, 1)

\* PyRange::__reversed__: the iterator over the elements of r from the last
reversed_iter(r, checks) ==
    LET length == compute_length(r)
        new_stop == r.start - r.step
        start == new_stop + length * r.step
        step == 0 - r.step
        fixed == /\ to_isize(start) # None
                 /\ to_isize(step) # None
                 /\ to_isize(new_stop) # None
    IN [NoIter EXCEPT
          !.rep = IF fixed THEN "fixed" ELSE "long",
          !.start = start,
          !.step = step,
          !.length = IF fixed
                     THEN (IF to_usize(length) = None THEN 0 ELSE length)
                     ELSE length,
          !.checks = checks,
          !.range = r]

\* range_iter_reduce: the range in the tuple that __reduce__ of an iterator returns
range_iter_reduce(i) == Range(i.start, i.start + i.length * i.step, i.step)

\* the ranges a program keeps are within these limits
InLimits(r) ==
    /\ Abs(r.start) <= RangeMax + StepMax
    /\ Abs(r.stop) <= RangeMax + StepMax
    /\ Abs(r.step) <= 2 * StepMax

\* ra = range(stop)
range_new1(stop) ==
    /\ it.rep = "none"
    /\ ra' = new(stop)
    /\ rres' = RangeResult("range", "none", TRUE, None, new(stop), rres.s, rres.t)
    /\ UNCHANGED <<rb, it>>
    /\ UNCHANGED RangeFrame

\* ra = range(start, stop[, step]): on an error no range is made and ra is kept
range_new(start, stop, step) ==
    /\ it.rep = "none"
    /\ LET g == new_from(start, stop, step)
       IN /\ ra' = IF g.r = None THEN ra ELSE g.r[1]
          /\ rres' = RangeResult("range", g.err, g.r # None, step,
                                 IF g.r = None THEN ra ELSE g.r[1], rres.s, rres.t)
    /\ UNCHANGED <<rb, it>>
    /\ UNCHANGED RangeFrame

\* ra = ra[s]
range_slice(s) ==
    /\ it.rep = "none"
    /\ LET g == getitem_slice(ra, s)
       IN /\ g.r # None => InLimits(g.r[1])
          /\ ra' = IF g.r = None THEN ra ELSE g.r[1]
          /\ rres' = RangeResult("getitem", g.err, g.r # None, <<>>,
                                 IF g.r = None THEN ra ELSE g.r[1], rres.s, rres.t)
    /\ UNCHANGED <<rb, it>>
    /\ UNCHANGED RangeFrame

\* reversed(ra)
range_reversed(checks) ==
    /\ it.rep = "none"
    /\ it' = reversed_iter(ra, checks)
    /\ UNCHANGED <<ra, rb, rres>>
    /\ UNCHANGED RangeFrame

\* ra = the range that it.__reduce__() returns
range_reduce ==
    /\ it.rep # "none"
    /\ ra' = range_iter_reduce(it)
    /\ rres' = RangeResult("__reduce__", "none", TRUE, <<it.index>>,
                           range_iter_reduce(it), rres.s, rres.t)
    /\ UNCHANGED <<rb, it>>
    /\ UNCHANGED RangeFrame

\* the iterator is dropped
range_drop ==
    /\ it.rep # "none"
    /\ it' = NoIter
    /\ UNCHANGED <<ra, rb, rres>>
    /\ UNCHANGED RangeFrame

StepArgs == {None} \cup {Some(c) : c \in (0 - StepMax)..StepMax}

NextBuild ==
    \/ \E stop \in RangeVals : range_new1(stop)
    \/ \E start \in RangeVals, stop \in RangeVals, step \in StepArgs :
            range_new(start, stop, step)
    \/ \E s \in RSlices2 : range_slice(s)
    \/ \E checks \in BOOLEAN : range_iter(checks)
    \/ \E checks \in BOOLEAN : range_reversed(checks)
    \/ range_next
    \/ range_reduce
    \/ range_drop

InitBuild == ArrayIdle /\ RangeIdle

SpecBuild == InitBuild /\ [][NextBuild]_vars

\* C12: range() with an explicit step of zero returns a ValueError and makes no
\* range; every range made by construction, by slicing a range or by reducing
\* a range iterator has a step other than zero, and so has every iterator, and
\* the length computation never takes its zero-step branch.
C12_StepNeverZero ==
    /\ (rres.op = "range" /\ rres.n = Some(0)) => (rres.err = "ValueError" /\ ~rres.b)
    /\ ra.step # 0
    /\ rres.r.step # 0
    /\ it.rep # "none" => it.step # 0
    /\ compute_length(ra) >= 0

C12_Witness ==
    /\ rres.op = "__reduce__"
    /\ it.rep = "long"
    /\ it.index > 0
    /\ Abs(ra.step) > StepMax

\* ------------------------------------------- range: resuming an iterator

\* range_state: the cursor stored for a saved index (an int object)
range_state(length, state) ==
    LET index == IF state > length THEN Max(length, UsizeMax) ELSE state
    IN IF to_usize(index) = None THEN 0 ELSE index

\* the objects handed to __setstate__: ints around the lengths, and a non-int
States ==
    {[int |-> TRUE, n |-> n] : n \in (0 - 2)..(UsizeMax + 2)}
        \cup {[int |-> FALSE, n |-> 0]}

\* PyRangeIterator::__setstate__ and PyLongRangeIterator::__setstate__
range_setstate(state) ==
    /\ it.rep # "none"
    /\ ~it.panicked
    /\ IF state.int
       THEN /\ it' = [it EXCEPT !.index = range_state(it.length, state.n)]
            /\ rres' = RangeResult("__setstate__", "none", TRUE,
                                   <<state.n, range_state(it.length, state.n)>>,
                                   ra, rres.s, rres.t)
       ELSE /\ it' = it
            /\ rres' = RangeResult("__setstate__", "TypeError", FALSE,
                                   <<state.n, it.index>>, ra, rres.s, rres.t)
    /\ UNCHANGED <<ra, rb>>
    /\ UNCHANGED RangeFrame

NextResume ==
    \/ \E checks \in BOOLEAN : range_iter(checks)
    \/ \E checks \in BOOLEAN : range_reversed(checks)
    \/ range_next
    \/ \E state \in States : range_setstate(state)

SpecResume == InitSlice /\ [][NextResume]_vars

\* C13: __setstate__ with a saved index s stores s clamped into [0, length]:
\* 0 for a negative s, length for an s above length, s itself otherwise; the
\* cursor it stores is never below 0 nor above length.
C13_SetstateClamps ==
    (rres.op = "__setstate__" /\ rres.err = "none") =>
        /\ rres.n[2] = IF rres.n[1] < 0 THEN 0
                       ELSE IF rres.n[1] > it.length THEN it.length
                       ELSE rres.n[1]
        /\ 0 <= rres.n[2]
        /\ rres.n[2] <= it.length

\* --------------------------------- range: one iterator shared by threads

\* next, first half: zelf.index.fetch_add(1), one atomic step; the thread holds
\* the index it was handed (calls are followed until one element more than the
\* length has been returned)
NextFetch(t) ==
    /\ it.rep # "none"
    /\ pc[t].at = "idle"
    /\ Len(rres.n) <= it.length
    /\ pc' = [pc EXCEPT ![t] = [at |-> "next", x |-> IntObj(0), i |-> it.index]]
    /\ it' = [it EXCEPT !.index = next_outcome(it).index]
    /\ UNCHANGED <<ra, rb, rres>>
    /\ UNCHANGED <<arrayVars, lock, views, byteVars, macVars>>

\* next, second half: the element at the index handed to the thread is returned
\* (rres.n lists the indices whose elements were returned), or StopIteration,
\* after which the thread calls next no more; a panic ends the thread
NextReturn(t) ==
    /\ pc[t].at = "next"
    /\ LET o == next_outcome([it EXCEPT !.index = pc[t].i])
       IN IF o.value # None
          THEN /\ rres' = [rres EXCEPT !.op = "next", !.n = Append(@, pc[t].i)]
               /\ pc' = [pc EXCEPT ![t] = Idle]
          ELSE /\ rres' = [rres EXCEPT !.op = "next"]
               /\ pc' = [pc EXCEPT ![t].at = IF o.panic THEN "panicked" ELSE "stopped"]
    /\ UNCHANGED <<ra, rb, it>>
    /\ UNCHANGED <<arrayVars, lock, views, byteVars, macVars>>

NextShare ==
    \/ \E checks \in BOOLEAN : range_iter(checks)
    \/ \E t \in Threads : NextFetch(t)
    \/ \E t \in Threads : NextReturn(t)

SpecShare == InitSlice /\ [][NextShare]_vars

\* how many of the calls so far returned the element at index k
Returned(k) == Cardinality({j \in 1..Len(rres.n) : rres.n[j] = k})

\* C14: with threads calling next on one shared iterator, no element of the
\* range is returned twice, and once every thread has seen StopIteration every
\* element has been returned exactly once.
C14_EachIndexOnce ==
    it.rep # "none" =>
        /\ \A k \in 0..(compute_length(ra) - 1) : Returned(k) <= 1
        /\ (\A t \in Threads : pc[t].at = "stopped") =>
               \A k \in 0..(compute_length(ra) - 1) : Returned(k) = 1

\* the same, for iterators that cannot reach the wrap of the cursor or an
\* overflow of the element computation
C14_EachIndexOnceBelowWrap ==
    (it.rep # "none" /\ compute_length(ra) < UsizeMax /\ ~it.checks) => C14_EachIndexOnce

\* ------------------------------------------------ array: serialization

\* a serialization that leaves out the last element
get_bytes_DropLast(tc, v) ==
    Flatten([k \in 1..(Len(v) - 1) |-> ToLEBytes(v[k], itemsize(tc))])

\* PyArray::get_bytes: the memory of the elements, in the host's byte order
\* (% and \div round down, so a negative element gives its two's complement)
get_bytes(tc, v) ==
    Flatten([k \in 1..Len(v) |-> ToLEBytes(v[k], itemsize(tc))])

\* PyArray::tobytes: the bytes of the elements; the array stays as it is
tobytes ==
    /\ out' = [NoOut EXCEPT !.op = "tobytes", !.tc = typecode, !.src = array,
                            !.bytes = get_bytes(typecode, array)]
    /\ res' = [op |-> "tobytes", err |-> "none"]
    /\ scen' = Track("tobytes", IntObj(0))
    /\ UNCHANGED <<typecode, array, exports, concVars, rangeVars, macVars>>

\* Constructor::py_new with the type code spec and the optional initializer
\* init: a list is pushed object by object, a str goes to a character array
py_new_result(spec, init) ==
    IF init = None THEN Done(<<>>)
    ELSE IF init[1].t = "str"
    THEN IF spec = "u"
         THEN Done(frombytes(spec, <<>>, _unicode_to_wchar_bytes(init[1].s, itemsize(spec))))
         ELSE Fail(<<>>, "TypeError")
    ELSE IF init[1].t = "list" THEN push_all(spec, <<>>, init[1].list)
    ELSE Fail(<<>>, "TypeError")

\* the new array object takes the place of the modelled one
py_new(spec, init) ==
    LET r == py_new_result(spec, init)
    IN /\ Len(r.arr) <= MaxLen
       /\ IF r.err = "none"
          THEN typecode' = spec /\ array' = r.arr /\ exports' = 0
          ELSE UNCHANGED <<typecode, array, exports>>
       /\ res' = [op |-> "new", err |-> r.err]
       /\ scen' = Track("new", IntObj(0))
       /\ out' = [out EXCEPT !.args = <<spec, init>>]
       /\ UNCHANGED <<concVars, rangeVars, macVars>>

\* frombytes called on a newly made array of the kind of the array last
\* serialized, with the bytes of that array
frombytes_out ==
    /\ out.op = "tobytes"
    /\ typecode = out.tc
    /\ res = [op |-> "new", err |-> "none"]
    /\ frombytes_(out.bytes)

\* ------------------------------------------- array: machine format codes

\* MachineFormatCode: the variant and its fields (a field the variant does not
\* have is FALSE)
Fmt(kind, signed, big_endian) ==
    [kind |-> kind, signed |-> signed, big_endian |-> big_endian]

Bit(b) == IF b THEN 1 ELSE 0

\* a numbering that sets the byte-order bit of the 16-bit integers the other
\* way round
u8_from_OtherEndian(f) ==
    CASE f.kind = "Int8" -> Bit(f.signed)
      [] f.kind = "Int16" -> 2 + Bit(f.signed) * 2 + Bit(~f.big_endian)
      [] f.kind = "Int32" -> 6 + Bit(f.signed) * 2 + Bit(f.big_endian)
      [] f.kind = "Int64" -> 10 + Bit(f.signed) * 2 + Bit(f.big_endian)
      [] f.kind = "Ieee754Float" -> 14 + Bit(f.big_endian)
      [] f.kind = "Ieee754Double" -> 16 + Bit(f.big_endian)
      [] f.kind = "Utf16" -> 18 + Bit(f.big_endian)
      [] f.kind = "Utf32" -> 20 + Bit(f.big_endian)

\* From<MachineFormatCode> for u8
u8_from(f) ==
    CASE f.kind = "Int8" -> Bit(f.signed)
      [] f.kind = "Int16" -> 2 + Bit(f.signed) * 2 + Bit(f.big_endian)
      [] f.kind = "Int32" -> 6 + Bit(f.signed) * 2 + Bit(f.big_endian)
      [] f.kind = "Int64" -> 10 + Bit(f.signed) * 2 + Bit(f.big_endian)
      [] f.kind = "Ieee754Float" -> 14 + Bit(f.big_endian)
      [] f.kind = "Ieee754Double" -> 16 + Bit(f.big_endian)
      [] f.kind = "Utf16" -> 18 + Bit(f.big_endian)
      [] f.kind = "Utf32" -> 20 + Bit(f.big_endian)

\* a decoding that takes one number more than there are variants
try_from_OneMore(code) ==
    LET big_endian == code % 2 # 0
        signed == IF code \in 0..1 THEN code # 0
                  ELSE IF code \in 2..13 THEN (code - 2) % 4 >= 2
                  ELSE FALSE
    IN IF code \in 0..1 THEN Some(Fmt("Int8", signed, FALSE))
       ELSE IF code \in 2..5 THEN Some(Fmt("Int16", signed, big_endian))
       ELSE IF code \in 6..9 THEN Some(Fmt("Int32", signed, big_endian))
       ELSE IF code \in 10..13 THEN Some(Fmt("Int64", signed, big_endian))
       ELSE IF code \in 14..15 THEN Some(Fmt("Ieee754Float", FALSE, big_endian))
       ELSE IF code \in 16..17 THEN Some(Fmt("Ieee754Double", FALSE, big_endian))
       ELSE IF code \in 18..19 THEN Some(Fmt("Utf16", FALSE, big_endian))
       ELSE IF code \in 20..22 THEN Some(Fmt("Utf32", FALSE, big_endian))
       ELSE None

\* TryFrom<u8> for MachineFormatCode
try_from(code) ==
    LET big_endian == code % 2 # 0
        signed == IF code \in 0..1 THEN code # 0
                  ELSE IF code \in 2..13 THEN (code - 2) % 4 >= 2
                  ELSE FALSE
    IN IF code \in 0..1 THEN Some(Fmt("Int8", signed, FALSE))
       ELSE IF code \in 2..5 THEN Some(Fmt("Int16", signed, big_endian))
       ELSE IF code \in 6..9 THEN Some(Fmt("Int32", signed, big_endian))
       ELSE IF code \in 10..13 THEN Some(Fmt("Int64", signed, big_endian))
       ELSE IF code \in 14..15 THEN Some(Fmt("Ieee754Float", FALSE, big_endian))
       ELSE IF code \in 16..17 THEN Some(Fmt("Ieee754Double", FALSE, big_endian))
       ELSE IF code \in 18..19 THEN Some(Fmt("Utf16", FALSE, big_endian))
       ELSE IF code \in 20..21 THEN Some(Fmt("Utf32", FALSE, big_endian))
       ELSE None

\* TryFromBorrowedObject for MachineFormatCode, for an int that fits an i32:
\* to_u8().unwrap_or(u8::MAX), then try_into
try_from_borrowed_object(n) == try_from(IF n \in 0..255 THEN n ELSE 255)

is_ascii_uppercase(tc) == tc \in {"B", "H", "I", "L", "Q"}

\* MachineFormatCode::from_typecode on a little-endian host whose wchar_t has
\* four bytes
from_typecode(tc) ==
    LET signed == is_ascii_uppercase(tc)
        big_endian == FALSE
    IN IF tc \in {"b", "B"} THEN Some(Fmt("Int8", signed, FALSE))
       ELSE IF tc = "u" THEN Some(Fmt("Utf32", FALSE, big_endian))
       ELSE IF tc = "f" THEN Some(Fmt("Ieee754Float", FALSE, big_endian))
       ELSE IF itemsize(tc) = 2 THEN Some(Fmt("Int16", signed, big_endian))
       ELSE IF itemsize(tc) = 4 THEN Some(Fmt("Int32", signed, big_endian))
       ELSE IF itemsize(tc) = 8 THEN Some(Fmt("Int64", signed, big_endian))
       ELSE None

\* MachineFormatCode::item_size
item_size(f) ==
    CASE f.kind = "Int8" -> 1
      [] f.kind \in {"Int16", "Utf16"} -> 2
      [] f.kind \in {"Int32", "Utf32", "Ieee754Float"} -> 4
      [] f.kind \in {"Int64", "Ieee754Double"} -> 8

Reverse(c) == [j \in 1..Len(c) |-> c[Len(c) + 1 - j]]

RECURSIVE SignedLEValue(_)
\* the two's complement value of a little-endian chunk of bytes
SignedLEValue(c) ==
    IF Len(c) = 1 THEN (IF c[1] >= 128 THEN c[1] - 256 ELSE c[1])
    ELSE c[1] + 256 * SignedLEValue(Tail(c))

\* chunk_to_obj!: from_le_bytes or from_be_bytes of the signed or unsigned type
chunk_to_obj(c, signed, big_endian) ==
    LET le == IF big_endian THEN Reverse(c) ELSE c
    IN IF signed THEN SignedLEValue(le) ELSE LEValue(le)

\* bytes.chunks(n), for a length that is a multiple of n
chunks(b, n) == [k \in 1..(Len(b) \div n) |-> SubSeq(b, (k - 1) * n + 1, k * n)]

\* u32_to_char: CodePoint::from_u32
u32_to_char(ch) == IF ch >= 0 /\ ch <= 1114111 THEN Some(ch) ELSE None

RECURSIVE from_utf16(_)
\* String::from_utf16: the code points, or None for an unpaired surrogate
from_utf16(units) ==
    IF units = <<>> THEN Some(<<>>)
    ELSE LET u == Head(units)
         IN IF u < 55296 \/ u > 57343
            THEN LET r == from_utf16(Tail(units))
                 IN IF r = None THEN None ELSE Some(<<u>> \o r[1])
            ELSE IF u <= 56319 /\ Len(units) >= 2
                    /\ units[2] >= 56320 /\ units[2] <= 57343
            THEN LET r == from_utf16(Tail(Tail(units)))
                     cp == 65536 + (u - 55296) * 1024 + (units[2] - 56320)
                 IN IF r = None THEN None ELSE Some(<<cp>> \o r[1])
            ELSE None

\* _array_reconstructor(cls, typecode, mformat_code, items) with an array
\* class, a valid type code and bytes: the elements of the new array
_array_reconstructor_result(tc, code, bytes) ==
    IF try_from_borrowed_object(code) = None THEN Fail(<<>>, "ValueError")
    ELSE
    LET format == try_from_borrowed_object(code)[1]
        cs == chunks(bytes, item_size(format))
        ints == [k \in 1..Len(cs) |->
                    IntObj(chunk_to_obj(cs[k], format.signed, format.big_endian))]
        vals == [k \in 1..Len(cs) |-> chunk_to_obj(cs[k], FALSE, format.big_endian)]
    IN IF Len(bytes) % item_size(format) # 0 THEN Fail(<<>>, "ValueError")
       ELSE IF from_typecode(tc) = Some(format) THEN Done(frombytes(tc, <<>>, bytes))
       ELSE IF format.kind = "Ieee754Float"
       THEN push_all(tc, <<>>, [k \in 1..Len(cs) |-> FloatObj(f32_as_f64(vals[k]))])
       ELSE IF format.kind = "Ieee754Double"
       THEN push_all(tc, <<>>, [k \in 1..Len(cs) |->
                FloatObj(chunk_to_obj(SubSeq(IF format.big_endian THEN Reverse(cs[k])
                                             ELSE cs[k], 5, 8), FALSE, FALSE))])
       ELSE IF format.kind = "Utf16"
       THEN IF from_utf16(vals) = None THEN Fail(<<>>, "UnicodeEncodeError")
            ELSE Done(frombytes(tc, <<>>,
                        _unicode_to_wchar_bytes(from_utf16(vals)[1], itemsize(tc))))
       ELSE IF format.kind = "Utf32"
       THEN IF \E k \in 1..Len(vals) : u32_to_char(vals[k]) = None
            THEN Fail(<<>>, "ValueError")
            ELSE Done(frombytes(tc, <<>>, _unicode_to_wchar_bytes(vals, itemsize(tc))))
       ELSE push_all(tc, <<>>, ints)

\* the array the reconstructor returns takes the place of the modelled one
_array_reconstructor(tc, code, bytes) ==
    LET r == _array_reconstructor_result(tc, code, bytes)
        same == out.op = "__reduce_ex__" /\ tc = out.tc /\ code = out.code
                /\ bytes = out.bytes
    IN /\ Len(r.arr) <= MaxLen + 1
       /\ IF r.err = "none"
          THEN typecode' = tc /\ array' = r.arr /\ exports' = 0
          ELSE UNCHANGED <<typecode, array, exports>>
       /\ res' = [op |-> "_array_reconstructor", err |-> r.err]
       /\ scen' = Track("_array_reconstructor", IntObj(0))
       /\ out' = [(IF same THEN out ELSE NoOut) EXCEPT !.args = <<tc, code, bytes>>]
       /\ UNCHANGED <<concVars, rangeVars, macVars>>

\* ArrayContentType::get_objects: to_object of every element (WideChar has none)
get_objects(tc, v) ==
    [k \in 1..Len(v) |-> IF tc = "f" THEN FloatObj(f32_as_f64(v[k])) ELSE IntObj(v[k])]

\* the values __reduce__ lists: the characters of a character array (None
\* when an element is no code point), the objects of any other
reduce_values(tc, v) ==
    IF tc = "u"
    THEN IF \E k \in 1..Len(v) : u32_to_char(v[k]) = None THEN None
         ELSE Some([k \in 1..Len(v) |-> StrObj(<<v[k]>>)])
    ELSE Some(get_objects(tc, v))

\* PyArray::__reduce_ex__, and PyArray::__reduce__ for a protocol below 3
__reduce_ex__(proto) ==
    /\ out' = IF proto >= 3
              THEN [NoOut EXCEPT !.op = "__reduce_ex__", !.tc = typecode, !.src = array,
                                 !.code = u8_from(from_typecode(typecode)[1]),
                                 !.bytes = get_bytes(typecode, array)]
              ELSE IF reduce_values(typecode, array) = None
              THEN [NoOut EXCEPT !.op = "__reduce__", !.err = "ValueError"]
              ELSE [NoOut EXCEPT !.op = "__reduce__", !.tc = typecode, !.src = array,
                                 !.list = reduce_values(typecode, array)[1]]
    /\ res' = [op |-> "__reduce_ex__", err |-> out'.err]
    /\ scen' = Track("__reduce_ex__", IntObj(0))
    /\ UNCHANGED <<typecode, array, exports, concVars, rangeVars, macVars>>

\* the reconstructor called with what __reduce_ex__ returned
reconstruct_out ==
    /\ out.op = "__reduce_ex__"
    /\ _array_reconstructor(out.tc, out.code, out.bytes)

\* the constructor called with what __reduce__ returned
py_new_out ==
    /\ out.op = "__reduce__" /\ out.err = "none"
    /\ py_new(out.tc, Some(ListObj(out.list)))

\* the elements the serialization part tries for each kind (0x110000 is no
\* code point; 1.5 and a quiet NaN are the floats besides 0.0)
ElemSamples(tc) ==
    CASE tc = "b" -> {0 - 128, 0 - 1, 127}
      [] tc = "B" -> {0, 200, 255}
      [] tc = "h" -> {0 - 32768, 0 - 2, 258}
      [] tc = "H" -> {258, 65535}
      [] tc = "u" -> {97, 233, 1114112}
      [] tc = "f" -> {0, 1069547520, 2143289344}

ArraysOf(tc) ==
    {<<>>} \cup {<<x>> : x \in ElemSamples(tc)}
           \cup {<<x, y>> : x \in ElemSamples(tc), y \in ElemSamples(tc)}

\* an array of any kind built from an initializer
InitBytes ==
    /\ typecode \in Kinds
    /\ array \in ArraysOf(typecode)
    /\ exports = 0
    /\ res = [op |-> "new", err |-> "none"]
    /\ scen = [stage |-> 0, x |-> IntObj(0), snap |-> <<>>]
    /\ out = NoOut
    /\ mac = MacIdle
    /\ ConcIdle
    /\ RangeIdle

\* the integer kinds of the model, and the byte strings and codes the
\* reconstructor is tried with
IntKinds == {"b", "B", "h", "H"}
ItemStrings ==
    {<<>>, <<255>>, <<1, 255>>, <<1, 2, 3>>, <<97, 0, 0, 0>>, <<0, 0, 0, 97>>,
     <<0, 0, 0, 0, 0, 0, 0, 0>>}
Codes == (0 - 1)..22

NextBytes ==
    \/ tobytes
    \/ \E spec \in Kinds : py_new(spec, None)
    \/ frombytes_out
    \/ \E proto \in 2..3 : __reduce_ex__(proto)
    \/ reconstruct_out
    \/ py_new_out

SpecBytes == InitBytes /\ [][NextBytes]_vars

\* the reconstructor called once, with any code and bytes, for an integer or
\* a character array
NextRebuild ==
    \E tc \in IntKinds \cup {"u"}, code \in Codes, bytes \in ItemStrings :
        res.op = "new" /\ _array_reconstructor(tc, code, bytes)

SpecRebuild == Init /\ [][NextRebuild]_vars

\* C15: the bytes tobytes returns for a non-empty array, given to frombytes on
\* an empty array of the same kind, load without error and leave that array
\* with the same length and the same elements in the same order.
C15_BytesRoundTrip ==
    (/\ out.op = "tobytes" /\ out.src # <<>>
     /\ res.op = "frombytes" /\ typecode = out.tc)
        => res.err = "none" /\ array = out.src

\* a two-element array of 16-bit integers has gone through the round trip
C15_Witness ==
    /\ out.op = "tobytes" /\ res.op = "frombytes" /\ typecode = out.tc
    /\ typecode = "h" /\ Len(out.src) = 2 /\ out.src[1] < 0
    /\ array = out.src

\* C16: the type code, machine-format code and bytes __reduce_ex__ returns for
\* protocol 3, given to _array_reconstructor, and the type code and element
\* list of the legacy form, given to the constructor, each make an array of
\* the same kind with the same elements as the array reduced.
C16_ReduceRoundTrip ==
    /\ (/\ out.op = "__reduce_ex__" /\ res.op = "_array_reconstructor"
        /\ out.args = <<out.tc, out.code, out.bytes>>)
            => res.err = "none" /\ typecode = out.tc /\ array = out.src
    /\ (/\ out.op = "__reduce__" /\ out.err = "none" /\ res.op = "new"
        /\ out.args = <<out.tc, Some(ListObj(out.list))>>)
            => res.err = "none" /\ typecode = out.tc /\ array = out.src

\* an array of 16-bit integers has been rebuilt by the reconstructor
C16_Witness ==
    /\ out.op = "__reduce_ex__" /\ res.op = "_array_reconstructor"
    /\ out.args = <<out.tc, out.code, out.bytes>>
    /\ out.tc = "h" /\ Len(out.src) = 2 /\ out.src[1] < 0
    /\ array = out.src

\* a float array holding a NaN has been rebuilt from the legacy form
C16_WitnessLegacy ==
    /\ out.op = "__reduce__" /\ res = [op |-> "new", err |-> "none"]
    /\ out.args = <<out.tc, Some(ListObj(out.list))>>
    /\ out.tc = "f" /\ Len(out.src) = 2 /\ out.src[2] = 2143289344
    /\ array = out.src

\* C17: the machine-format code __reduce_ex__ emits for an integer array is
\* the signed variant exactly when the kind is signed, has the width of the
\* kind's items, and names the host's byte order.
C17_CodeMatchesKind ==
    (out.op = "__reduce_ex__" /\ out.tc \in IntKinds) =>
        LET f == try_from(out.code)[1]
        IN /\ f.signed = IsSigned(out.tc)
           /\ item_size(f) = itemsize(out.tc)
           /\ ~f.big_endian

\* the width and the byte order of the emitted code are those of the kind
C17_WidthAndOrder ==
    (out.op = "__reduce_ex__" /\ out.tc \in IntKinds) =>
        LET f == try_from(out.code)[1]
        IN item_size(f) = itemsize(out.tc) /\ ~f.big_endian

\* the values of the chunks of bytes read as the code says
ChunkValues(code, bytes) ==
    LET f == try_from(code)[1]
        cs == chunks(bytes, item_size(f))
    IN [k \in 1..Len(cs) |-> chunk_to_obj(cs[k], f.signed, f.big_endian)]

\* C18: for an integer code, an integer target kind and bytes whose length
\* is a multiple of the code's item size, the reconstructor returns the values
\* of the chunks read as the code says, or fails when one of them does not fit
\* the target kind; for a length that is no multiple, or a code outside 0..21,
\* it fails with a value error.
C18_ReconstructorDecodes ==
    (res.op = "_array_reconstructor" /\ out.args[1] \in IntKinds) =>
        LET tc == out.args[1]
            code == out.args[2]
            bytes == out.args[3]
        IN IF code \notin 0..21 \/ Len(bytes) % item_size(try_from(code)[1]) # 0
           THEN res.err = "ValueError"
           ELSE code \in 0..13 =>
                IF \A k \in 1..Len(ChunkValues(code, bytes)) :
                       /\ ChunkValues(code, bytes)[k] >= ElemMin(tc)
                       /\ ChunkValues(code, bytes)[k] <= ElemMax(tc)
                THEN res.err = "none" /\ typecode = tc
                     /\ array = ChunkValues(code, bytes)
                ELSE res.err # "none"

\* the error cases of the reconstructor: a code outside 0..21 or a length that
\* is no multiple of the item size is a value error
C18_BadArguments ==
    (res.op = "_array_reconstructor"
     /\ (\/ out.args[2] \notin 0..21
         \/ Len(out.args[3]) % item_size(try_from(out.args[2])[1]) # 0))
        => res.err = "ValueError"

\* ------------------------------------------------ array: reading a file

\* the numbers of items asked of fromfile
FileCounts == (0 - 1)..2

NextFile ==
    \/ \E n \in FileCounts, b \in ByteStrings, isbytes \in BOOLEAN :
            fromfile(n, b, isbytes)
    \/ as_buffer
    \/ release

SpecFile == Init /\ [][NextFile]_vars

\* the bytes b are added at the end of the array's memory
Appended(b) == get_bytes(typecode, array') = get_bytes(typecode, array) \o b

\* C19 as stated: when the read gives fewer bytes than n items need, the bytes
\* read are appended and fromfile raises the end-of-input error; when it gives
\* exactly that many, they are appended and fromfile succeeds.
C19_ShortReadAppends ==
    [][\A n \in FileCounts, b \in ByteStrings :
        (n >= 0 /\ Len(b) <= n * itemsize(typecode) /\ fromfile(n, b, TRUE))
            => /\ Appended(b)
               /\ res'.err = IF Len(b) < n * itemsize(typecode)
                             THEN "EOFError" ELSE "none"]_vars

\* C19 amended: the bytes read are appended, before the end-of-input error of
\* a short read, when they are whole items and the array is not exported or
\* nothing was read; bytes that are no whole number of items are a value
\* error, and items read for an exported array a buffer error, and then
\* nothing is appended.
C19_ShortReadAppendsWholeItems ==
    [][\A n \in FileCounts, b \in ByteStrings :
        (n >= 0 /\ Len(b) <= n * itemsize(typecode) /\ fromfile(n, b, TRUE))
            => IF Len(b) % itemsize(typecode) # 0
               THEN res'.err = "ValueError" /\ array' = array
               ELSE IF exports > 0 /\ b # <<>>
               THEN res'.err = "BufferError" /\ array' = array
               ELSE /\ Appended(b)
                    /\ res'.err = IF Len(b) < n * itemsize(typecode)
                                  THEN "EOFError" ELSE "none"]_vars

\* a short read has left its byte in an array of signed bytes
C19_Witness ==
    /\ res = [op |-> "fromfile", err |-> "EOFError"]
    /\ typecode = "b" /\ array = <<0 - 1>> /\ exports = 0

\* ------------------------------------------------ array: slice assignment

\* the slices used as subscripts, and the values assigned to them: ints, a
\* str, a list, arrays of each kind, and the array itself
SliceNeedles == {needle \in Needles : needle.t = "slice"}
AssignValues == Objs \cup {ListObj(<<>>)} \cup ArrObjs \cup {SelfObj}

NextAssign ==
    \/ \E x \in Objs : append(x)
    \/ \E needle \in SliceNeedles, value \in AssignValues : __setitem__(needle, value)

SpecAssign == Init /\ [][NextAssign]_vars

Cfgs == {<<>>, <<"a">>}
Idents == {"f", "g"}
GetSetItemKinds == {"Get", "Set", "Delete"}
MemberItemKinds == {"Get", "Set"}
MemberKinds == {"Bool", "ObjectEx"}
\* the accessors offered to the GetSet nursery (name, guard, kind, function)
\* and to the Member nursery (name, kind, member kind, function)
GsAdds ==
    ({"x"} \X Cfgs \X GetSetItemKinds \X Idents)
        \cup ({"y"} \X {<<>>} \X {"Get", "Set"} \X {"f"})
MbAdds ==
    ({"x"} \X MemberItemKinds \X MemberKinds \X {"f"}) \cup {<<"x", "Get", "Bool", "g">>}
\* the accessors the two nurseries hold together, and the validations of the
\* GetSet nursery made in a row
MaxAccessors == 2
MaxValidations == 2

\* an entry of GetSetNursery.map with its key (name, cfgs)
GsEntry(name, cfgs, getter, setter, deleter) ==
    [name |-> name, cfgs |-> cfgs, get |-> getter, set |-> setter, del |-> deleter]
\* an entry of MemberNursery.map with its key (name, member_kind)
MbEntry(name, member_kind, getter, setter) ==
    [name |-> name, member_kind |-> member_kind, get |-> getter, set |-> setter]

GsAt(map, name, cfgs) == {e \in map : e.name = name /\ e.cfgs = cfgs}
MbAt(map, name, member_kind) ==
    {e \in map : e.name = name /\ e.member_kind = member_kind}

\* the accessor of an entry that an item kind names
GsFunc(e, kind) ==
    CASE kind = "Get" -> e.get
      [] kind = "Set" -> e.set
      [] kind = "Delete" -> e.del
MbFunc(e, kind) == IF kind = "Get" THEN e.get ELSE e.set

\* an add_item that replaces an accessor already there
GetSetNursery_add_item_Overwrite(n, name, cfgs, kind, item_ident) ==
    IF n.validated THEN [n |-> n, err |-> "panic"]
    ELSE IF kind # "Get" /\ cfgs # <<>> THEN [n |-> n, err |-> "OnlyGetterCfg"]
    ELSE LET old == GsAt(n.map, name, cfgs)
             entry == IF old = {} THEN GsEntry(name, cfgs, None, None, None)
                      ELSE CHOOSE e \in old : TRUE
             func == CASE kind = "Get" -> [entry EXCEPT !.get = Some(item_ident)]
                      [] kind = "Set" -> [entry EXCEPT !.set = Some(item_ident)]
                      [] kind = "Delete" -> [entry EXCEPT !.del = Some(item_ident)]
         IN [n |-> [n EXCEPT !.map = (n.map \ old) \cup {func}], err |-> "none"]

\* an add_item that lets a setter or a deleter carry a guard
GetSetNursery_add_item_AnyCfg(n, name, cfgs, kind, item_ident) ==
    IF n.validated THEN [n |-> n, err |-> "panic"]
    ELSE LET old == GsAt(n.map, name, cfgs)
             entry == IF old = {} THEN GsEntry(name, cfgs, None, None, None)
                      ELSE CHOOSE e \in old : TRUE
             func == CASE kind = "Get" -> [entry EXCEPT !.get = Some(item_ident)]
                      [] kind = "Set" -> [entry EXCEPT !.set = Some(item_ident)]
                      [] kind = "Delete" -> [entry EXCEPT !.del = Some(item_ident)]
         IN IF GsFunc(entry, kind) # None
            THEN [n |-> n, err |-> "MultipleAccessors"]
            ELSE [n |-> [n EXCEPT !.map = (n.map \ old) \cup {func}], err |-> "none"]

\* an add_item that looks an entry up by its name alone
GetSetNursery_add_item_ByName(n, name, cfgs, kind, item_ident) ==
    IF n.validated THEN [n |-> n, err |-> "panic"]
    ELSE IF kind # "Get" /\ cfgs # <<>> THEN [n |-> n, err |-> "OnlyGetterCfg"]
    ELSE LET old == {e \in n.map : e.name = name}
             entry == IF old = {} THEN GsEntry(name, cfgs, None, None, None)
                      ELSE CHOOSE e \in old : TRUE
             func == CASE kind = "Get" -> [entry EXCEPT !.get = Some(item_ident)]
                      [] kind = "Set" -> [entry EXCEPT !.set = Some(item_ident)]
                      [] kind = "Delete" -> [entry EXCEPT !.del = Some(item_ident)]
         IN IF GsFunc(entry, kind) # None
            THEN [n |-> n, err |-> "MultipleAccessors"]
            ELSE [n |-> [n EXCEPT !.map = (n.map \ {entry}) \cup {func}], err |-> "none"]

\* GetSetNursery::add_item: the nursery afterwards and the error returned
\* ("panic": the assertion failed)
GetSetNursery_add_item(n, name, cfgs, kind, item_ident) ==
    IF n.validated THEN [n |-> n, err |-> "panic"]
    ELSE IF kind # "Get" /\ cfgs # <<>> THEN [n |-> n, err |-> "OnlyGetterCfg"]
    ELSE LET old == GsAt(n.map, name, cfgs)
             entry == IF old = {} THEN GsEntry(name, cfgs, None, None, None)
                      ELSE CHOOSE e \in old : TRUE
             func == CASE kind = "Get" -> [entry EXCEPT !.get = Some(item_ident)]
                      [] kind = "Set" -> [entry EXCEPT !.set = Some(item_ident)]
                      [] kind = "Delete" -> [entry EXCEPT !.del = Some(item_ident)]
         IN IF GsFunc(entry, kind) # None
            THEN [n |-> [n EXCEPT !.map = (n.map \ old) \cup {entry}],
                  err |-> "MultipleAccessors"]
            ELSE [n |-> [n EXCEPT !.map = (n.map \ old) \cup {func}], err |-> "none"]

\* MemberNursery::add_item
MemberNursery_add_item(n, name, kind, member_kind, item_ident) ==
    IF n.validated THEN [n |-> n, err |-> "panic"]
    ELSE LET old == MbAt(n.map, name, member_kind)
             entry == IF old = {} THEN MbEntry(name, member_kind, None, None)
                      ELSE CHOOSE e \in old : TRUE
             func == IF kind = "Get" THEN [entry EXCEPT !.get = Some(item_ident)]
                    ELSE [entry EXCEPT !.set = Some(item_ident)]
         IN IF MbFunc(entry, kind) # None
            THEN [n |-> [n EXCEPT !.map = (n.map \ old) \cup {entry}],
                  err |-> "MultipleAccessors"]
            ELSE [n |-> [n EXCEPT !.map = (n.map \ old) \cup {func}], err |-> "none"]

\* the errors validate collects: for every entry without a getter (told apart
\* by its key), its name and the setter (or else the deleter) the error
\* points at
GsMissing(map) ==
    {[name |-> e.name, key |-> e.cfgs, at |-> IF e.set # None THEN e.set ELSE e.del] :
        e \in {x \in map : x.get = None}}
MbMissing(map) ==
    {[name |-> e.name, key |-> e.member_kind, at |-> e.set] : e \in {x \in map : x.get = None}}

\* a validate that marks the nursery validated whatever it found
GetSetNursery_validate_MarksAlways(n) ==
    [n |-> [n EXCEPT !.validated = TRUE],
     err |-> IF GsMissing(n.map) # {} THEN "MissingGetter" ELSE "none",
     errs |-> GsMissing(n.map)]

\* a validate that throws away the entries it rejects
GetSetNursery_validate_DropsRejected(n) ==
    IF GsMissing(n.map) # {}
    THEN [n |-> [n EXCEPT !.map = {e \in n.map : e.get # None}],
          err |-> "MissingGetter", errs |-> GsMissing(n.map)]
    ELSE [n |-> [n EXCEPT !.validated = TRUE], err |-> "none", errs |-> {}]

\* GetSetNursery::validate
GetSetNursery_validate(n) ==
    IF GsMissing(n.map) # {}
    THEN [n |-> n, err |-> "MissingGetter", errs |-> GsMissing(n.map)]
    ELSE [n |-> [n EXCEPT !.validated = TRUE], err |-> "none", errs |-> {}]

\* MemberNursery::validate
MemberNursery_validate(n) ==
    IF MbMissing(n.map) # {}
    THEN [n |-> n, err |-> "MissingGetter", errs |-> MbMissing(n.map)]
    ELSE [n |-> [n EXCEPT !.validated = TRUE], err |-> "none", errs |-> {}]

\* the orders in which a HashMap may hand out the entries of map
Orders(map) ==
    {q \in [1..Cardinality(map) -> map] :
        \A i, j \in 1..Cardinality(map) : q[i] = q[j] => i = j}

\* a rendering that does not insist on a validated nursery
to_tokens_NoAssert(n, order) == [installs |-> order, err |-> "none"]

\* ToTokens for GetSetNursery and for MemberNursery: one installed descriptor
\* per entry, in the order the map hands the entries out
to_tokens(n, order) ==
    IF ~n.validated THEN [installs |-> <<>>, err |-> "panic"]
    ELSE [installs |-> order, err |-> "none"]

\* the accessors stored in the two nurseries
Accessors(m) ==
    LET Cnt(o) == IF o = None THEN 0 ELSE 1
        RECURSIVE GsSum(_), MbSum(_)
        GsSum(S) == IF S = {} THEN 0
                    ELSE LET e == CHOOSE x \in S : TRUE
                         IN Cnt(e.get) + Cnt(e.set) + Cnt(e.del) + GsSum(S \ {e})
        MbSum(S) == IF S = {} THEN 0
                    ELSE LET e == CHOOSE x \in S : TRUE
                         IN Cnt(e.get) + Cnt(e.set) + MbSum(S \ {e})
    IN GsSum(m.gs.map) + MbSum(m.mb.map)

Did(op, err, errs, installs) ==
    [op |-> op, err |-> err, errs |-> errs, installs |-> installs]

gs_add(name, cfgs, kind, item_ident) ==
    LET r == GetSetNursery_add_item(mac.gs, name, cfgs, kind, item_ident)
    IN /\ mac' = [mac EXCEPT !.gs = r.n, !.vrun = <<>>,
                     !.last = Did("gs_add", r.err, {}, <<>>)]
       /\ Accessors(mac') <= MaxAccessors
       /\ UNCHANGED MacFrame

mb_add(name, kind, member_kind, item_ident) ==
    LET r == MemberNursery_add_item(mac.mb, name, kind, member_kind, item_ident)
    IN /\ mac' = [mac EXCEPT !.mb = r.n,
                     !.last = Did("mb_add", r.err, {}, <<>>)]
       /\ Accessors(mac') <= MaxAccessors
       /\ UNCHANGED MacFrame

gs_validate ==
    LET r == GetSetNursery_validate(mac.gs)
    IN /\ Len(mac.vrun) < MaxValidations
       /\ mac' = [mac EXCEPT !.gs = r.n,
                     !.vrun = Append(@, [err |-> r.err, errs |-> r.errs]),
                     !.last = Did("gs_validate", r.err, r.errs, <<>>)]
       /\ UNCHANGED MacFrame

mb_validate ==
    LET r == MemberNursery_validate(mac.mb)
    IN /\ mac' = [mac EXCEPT !.mb = r.n,
                     !.last = Did("mb_validate", r.err, r.errs, <<>>)]
       /\ UNCHANGED MacFrame

gs_to_tokens ==
    \E order \in Orders(mac.gs.map) :
        LET r == to_tokens(mac.gs, order)
        IN /\ mac' = [mac EXCEPT !.last = Did("gs_to_tokens", r.err, {}, r.installs)]
           /\ UNCHANGED MacFrame

mb_to_tokens ==
    \E order \in Orders(mac.mb.map) :
        LET r == to_tokens(mac.mb, order)
        IN /\ mac' = [mac EXCEPT !.last = Did("mb_to_tokens", r.err, {}, r.installs)]
           /\ UNCHANGED MacFrame

NextNursery ==
    \/ \E a \in GsAdds : gs_add(a[1], a[2], a[3], a[4])
    \/ \E a \in MbAdds : mb_add(a[1], a[2], a[3], a[4])
    \/ gs_validate
    \/ mb_validate
    \/ gs_to_tokens
    \/ mb_to_tokens

SpecNursery == Init /\ [][NextNursery]_vars

\* C22: in a nursery that takes the item (not yet validated, a guard only on
\* a getter), adding an accessor of a kind the key already holds returns the
\* multiple-accessors error and leaves every entry as it was; adding to an
\* empty slot succeeds, stores exactly that accessor and touches nothing
\* else. The GetSet key is (name, guard), the Member key (name, member kind).
C22_AddAccessor ==
    [][/\ \A a \in GsAdds :
            LET name == a[1]
                cfgs == a[2]
                kind == a[3]
                item_ident == a[4]
            IN
            (/\ mac'.last.op = "gs_add"
             /\ ~mac.gs.validated
             /\ kind = "Get" \/ cfgs = <<>>
             /\ gs_add(name, cfgs, kind, item_ident))
            => IF \E e \in GsAt(mac.gs.map, name, cfgs) : GsFunc(e, kind) # None
               THEN /\ mac'.last.err = "MultipleAccessors"
                    /\ mac'.gs = mac.gs
               ELSE /\ mac'.last.err = "none"
                    /\ \E e \in mac'.gs.map :
                          /\ e.name = name /\ e.cfgs = cfgs
                          /\ GsFunc(e, kind) = Some(item_ident)
                          /\ \A k \in GetSetItemKinds \ {kind} :
                                GsFunc(e, k) =
                                    IF GsAt(mac.gs.map, name, cfgs) = {} THEN None
                                    ELSE GsFunc(CHOOSE o \in GsAt(mac.gs.map, name, cfgs) : TRUE, k)
                          /\ mac'.gs.map \ {e} = mac.gs.map \ GsAt(mac.gs.map, name, cfgs)
                    /\ Cardinality(GsAt(mac'.gs.map, name, cfgs)) = 1
       /\ \A a \in MbAdds :
            LET name == a[1]
                kind == a[2]
                member_kind == a[3]
                item_ident == a[4]
            IN
            (/\ mac'.last.op = "mb_add"
             /\ ~mac.mb.validated
             /\ mb_add(name, kind, member_kind, item_ident))
            => IF \E e \in MbAt(mac.mb.map, name, member_kind) : MbFunc(e, kind) # None
               THEN /\ mac'.last.err = "MultipleAccessors"
                    /\ mac'.mb = mac.mb
               ELSE /\ mac'.last.err = "none"
                    /\ \E e \in mac'.mb.map :
                          /\ e.name = name /\ e.member_kind = member_kind
                          /\ MbFunc(e, kind) = Some(item_ident)
                          /\ mac'.mb.map \ {e} = mac.mb.map \ MbAt(mac.mb.map, name, member_kind)
                    /\ Cardinality(MbAt(mac'.mb.map, name, member_kind)) = 1
      ]_vars

\* a second getter for a key was refused and the first one is still there
C22_Witness ==
    /\ mac.last.op = "gs_add"
    /\ mac.last.err = "MultipleAccessors"
    /\ \E e \in mac.gs.map : e.get # None

\* the entries validate rejects, in the words of the specification
GsIncomplete(map) == {e \in map : (e.set # None \/ e.del # None) /\ e.get = None}
MbIncomplete(map) == {e \in map : e.set # None /\ e.get = None}

\* C23: validate fails exactly when some entry has a setter or a deleter but
\* no getter, with one error per such entry; it marks the nursery validated
\* only when it succeeds, so a validated nursery has a getter in every entry.
C23_ValidateCompleteness ==
    /\ [](/\ mac.gs.validated => \A e \in mac.gs.map : e.get # None
          /\ mac.mb.validated => \A e \in mac.mb.map : e.get # None)
    /\ [][/\ gs_validate =>
                /\ mac'.last.err # "none" <=> GsIncomplete(mac.gs.map) # {}
                /\ Cardinality(mac'.last.errs) = Cardinality(GsIncomplete(mac.gs.map))
                /\ {r.name : r \in mac'.last.errs} = {e.name : e \in GsIncomplete(mac.gs.map)}
                /\ mac'.gs.validated <=> (mac.gs.validated \/ mac'.last.err = "none")
          /\ mb_validate =>
                /\ mac'.last.err # "none" <=> MbIncomplete(mac.mb.map) # {}
                /\ Cardinality(mac'.last.errs) = Cardinality(MbIncomplete(mac.mb.map))
                /\ mac'.mb.validated <=> (mac.mb.validated \/ mac'.last.err = "none")
         ]_vars

\* a validation that found two entries without a getter
C23_Witness ==
    /\ mac.last.op = "gs_validate"
    /\ mac.last.err = "MissingGetter"
    /\ Cardinality(mac.last.errs) = 2
    /\ ~mac.gs.validated

\* C24: validations made in a row all have the same outcome, none of them
\* changes an entry, and a rendering after them installs every entry once.
C24_ValidateIdempotent ==
    /\ [](/\ \A i, j \in 1..Len(mac.vrun) : mac.vrun[i] = mac.vrun[j]
          /\ (mac.last.op = "gs_to_tokens" /\ mac.last.err = "none") =>
                /\ Len(mac.last.installs) = Cardinality(mac.gs.map)
                /\ \A e \in mac.gs.map :
                      Cardinality({i \in 1..Len(mac.last.installs) :
                                      mac.last.installs[i] = e}) = 1)
    /\ [][gs_validate => mac'.gs.map = mac.gs.map]_vars

\* two entries rendered after two validations
C24_Witness ==
    /\ Len(mac.vrun) = 2
    /\ mac.last.op = "gs_to_tokens"
    /\ mac.last.err = "none"
    /\ Len(mac.last.installs) = 2

\* C25: once validate has succeeded an add is an assertion failure that
\* leaves the nursery alone, and rendering is an assertion failure unless
\* validate has succeeded.
C25_Lifecycle ==
    [][/\ \A a \in GsAdds :
            (mac'.last.op = "gs_add" /\ mac.gs.validated /\ gs_add(a[1], a[2], a[3], a[4]))
            => mac'.last.err = "panic" /\ mac'.gs = mac.gs
       /\ \A a \in MbAdds :
            (mac'.last.op = "mb_add" /\ mac.mb.validated /\ mb_add(a[1], a[2], a[3], a[4]))
            => mac'.last.err = "panic" /\ mac'.mb = mac.mb
       /\ gs_to_tokens =>
            /\ mac'.last.err = "panic" <=> ~mac.gs.validated
            /\ ~mac.gs.validated => mac'.last.installs = <<>>
       /\ mb_to_tokens =>
            /\ mac'.last.err = "panic" <=> ~mac.mb.validated
            /\ ~mac.mb.validated => mac'.last.installs = <<>>
      ]_vars

\* an add after a successful validation
C25_Witness ==
    /\ mac.last.op = "gs_add"
    /\ mac.last.err = "panic"
    /\ mac.gs.validated
    /\ mac.gs.map # {}

\* a rendering asked of a nursery that was never validated
C25_WitnessRender ==
    /\ mac.last.op = "gs_to_tokens"
    /\ mac.last.err = "panic"
    /\ mac.gs.map # {}

\* C30: a setter or a deleter offered with a guard is refused with an error
\* and the entries stay as they were, so no guarded entry ever holds one.
C30_OnlyGetterGuarded ==
    /\ [](\A e \in mac.gs.map : e.cfgs # <<>> => e.set = None /\ e.del = None)
    /\ [][\A a \in GsAdds :
            (/\ mac'.last.op = "gs_add"
             /\ ~mac.gs.validated
             /\ a[3] # "Get" /\ a[2] # <<>>
             /\ gs_add(a[1], a[2], a[3], a[4]))
            => mac'.last.err = "OnlyGetterCfg" /\ mac'.gs = mac.gs
         ]_vars

\* a guarded setter refused by a nursery that holds a guarded getter
C30_Witness ==
    /\ mac.last.op = "gs_add"
    /\ mac.last.err = "OnlyGetterCfg"
    /\ \E e \in mac.gs.map : e.cfgs # <<>>

\* ---------------------------------------------- macro: a class definition

\* the items of one definition, and the capabilities it may compose
MaxItems == 3
Caps == {<<>>, <<"A">>, <<"A", "B">>}

\* a #[py*] attribute of an item
PyAttr(t, name, kind, member_kind) ==
    [t |-> t, name |-> name, kind |-> kind, member_kind |-> member_kind]

\* an item of an impl block or of a trait: what it is ("fn", "const" or
\* "other"), its #[cfg] attributes, its #[py*] attributes in source order,
\* and whether a #[cfg] follows a #[py*] attribute
DefItem(shape, cfgs, attrs, late_cfg) ==
    [shape |-> shape, cfgs |-> cfgs, attrs |-> attrs, late_cfg |-> late_cfg]

DefItems ==
    { DefItem("fn", <<>>, <<PyAttr("method", "m", "-", "-")>>, FALSE),
      DefItem("fn", <<"a">>, <<PyAttr("method", "m", "-", "-")>>, FALSE),
      DefItem("fn", <<>>, <<PyAttr("attr", "m", "-", "-")>>, FALSE),
      DefItem("const", <<>>, <<PyAttr("attr", "c", "-", "-")>>, FALSE),
      DefItem("other", <<>>, <<PyAttr("attr", "c", "-", "-")>>, FALSE),
      DefItem("fn", <<>>, <<PyAttr("slot", "hash", "-", "-")>>, FALSE),
      DefItem("const", <<>>, <<PyAttr("slot", "Hash", "-", "-")>>, FALSE),
      DefItem("fn", <<>>, <<PyAttr("getset", "x", "Get", "-")>>, FALSE),
      DefItem("fn", <<>>, <<PyAttr("getset", "x", "Set", "-")>>, FALSE),
      DefItem("fn", <<>>, <<PyAttr("member", "x", "Get", "Bool")>>, FALSE),
      DefItem("fn", <<>>, <<PyAttr("extend_class", "-", "-", "-")>>, FALSE),
      DefItem("const", <<>>, <<PyAttr("method", "m", "-", "-")>>, FALSE),
      DefItem("fn", <<>>, <<PyAttr("method", "m", "-", "-"),
                            PyAttr("method", "n", "-", "-")>>, FALSE),
      DefItem("fn", <<>>, <<PyAttr("attr", "c", "-", "-")>>, TRUE) }

\* str::to_lowercase on the slot names used here
to_lowercase(name) == IF name = "Hash" THEN "hash" ELSE name

\* an entry of an ItemNursery: the primary name, the guard, the item, the
\* priority, and which installer its install code is
NurseryItem(name, cfgs, ident, sort_order, t) ==
    [name |-> name, cfgs |-> cfgs, ident |-> ident, sort_order |-> sort_order, t |-> t]

\* an add that takes the name alone for the key
ItemNursery_add_item_NameOnly(n, ident, py_name, cfgs, t, sort_order) ==
    IF \E i \in 1..Len(n) : n[i].name = py_name
    THEN [n |-> n, err |-> "Duplicated"]
    ELSE [n |-> Append(n, NurseryItem(py_name, cfgs, ident, sort_order, t)), err |-> "none"]

\* the registry's add: a duplicate-name error when an entry with the same
\* primary name and an identical guard exists, else the entry is appended
ItemNursery_add_item(n, ident, py_name, cfgs, t, sort_order) ==
    IF \E i \in 1..Len(n) : n[i].name = py_name /\ n[i].cfgs = cfgs
    THEN [n |-> n, err |-> "Duplicated"]
    ELSE [n |-> Append(n, NurseryItem(py_name, cfgs, ident, sort_order, t)), err |-> "none"]

\* a render in insertion order
ItemNursery_render_Unsorted(n) == n

\* the registry's render: the entries in ascending (priority, insertion order)
ItemNursery_render(n) ==
    LET RECURSIVE From(_)
        From(p) == IF p > 5 THEN <<>>
                   ELSE SelectSeq(n, LAMBDA e : e.sort_order = p) \o From(p + 1)
    IN From(0)

\* gen_impl_item of MethodItem, GetSetItem, SlotItem, AttributeItem,
\* ExtendClassItem and MemberItem on the context m: the context afterwards
\* and the error returned
gen_impl_item(m, item, attr, ident) ==
    CASE attr.t = "method" ->
            IF item.shape # "fn" THEN [m |-> m, err |-> "OnlyOnMethod"]
            ELSE LET r == ItemNursery_add_item(m.ext, ident, attr.name, item.cfgs, "method", 5)
                 IN [m |-> [m EXCEPT !.ext = r.n], err |-> r.err]
      [] attr.t = "getset" ->
            IF item.shape # "fn" THEN [m |-> m, err |-> "OnlyOnMethod"]
            ELSE LET r == GetSetNursery_add_item(m.gs, attr.name, item.cfgs, attr.kind, ident)
                 IN [m |-> [m EXCEPT !.gs = r.n], err |-> r.err]
      [] attr.t = "slot" ->
            IF item.shape \notin {"const", "fn"} THEN [m |-> m, err |-> "OnlyOnMethod"]
            ELSE LET r == ItemNursery_add_item(m.slots, ident,
                              <<"slot", to_lowercase(attr.name)>>, item.cfgs, "slot", 2)
                 IN [m |-> [m EXCEPT !.slots = r.n], err |-> r.err]
      [] attr.t = "attr" ->
            IF item.shape \notin {"const", "fn"} THEN [m |-> m, err |-> "OnlyOnConstOrMethod"]
            ELSE LET r == ItemNursery_add_item(m.ext, ident, attr.name, item.cfgs, "attr", 1)
                 IN [m |-> [m EXCEPT !.ext = r.n], err |-> r.err]
      [] attr.t = "extend_class" ->
            IF item.shape # "fn" THEN [m |-> m, err |-> "OnlyOnMethod"]
            ELSE [m |-> [m EXCEPT !.hooks = Append(@, ident)], err |-> "none"]
      [] attr.t = "member" ->
            IF item.shape # "fn" THEN [m |-> m, err |-> "OnlyOnMethod"]
            ELSE LET r == MemberNursery_add_item(m.mb, attr.name, attr.kind, attr.member_kind, ident)
                 IN [m |-> [m EXCEPT !.mb = r.n], err |-> r.err]

\* ok_or_push: an error is recorded with the item it was found on
ok_or_push(m, err, ident) ==
    IF err = "none" THEN m
    ELSE [m EXCEPT !.errors = Append(@, [err |-> err, ident |-> ident])]

\* the body of the loop of extract_items_into_context for one item:
\* attrs_to_content_items, then gen_impl_item for its #[py*] attributes from
\* the last to the first, every error recorded
extract_item(m, item, ident) ==
    LET RECURSIVE Gen(_, _)
        Gen(c, k) ==
            IF k = 0 THEN c
            ELSE LET r == gen_impl_item(c, item, item.attrs[k], ident)
                 IN Gen(ok_or_push(r.m, r.err, ident), k - 1)
    IN IF item.late_cfg THEN ok_or_push(m, "PyItemAboveCfg", ident)
       ELSE Gen(m, Len(item.attrs))

\* extract_impl_attrs: one attribute-install call and one slot-install call
\* per composed capability, in the declared order
with_calls(withs) == [i \in 1..Len(withs) |-> [t |-> "with", cap |-> withs[i]]]

\* the installers a nursery rendering and the class_extensions stand for
installs_of(order, t) == [i \in 1..Len(order) |-> [t |-> t, e |-> order[i]]]

\* impl_pyimpl after the items: the two validations that end
\* extract_items_into_context, the rendering of __extend_py_class and
\* __extend_slots, the class setup (impl_extend_class and extend_slots of a
\* main impl block, the two generated functions otherwise) and the
\* diagnostics appended. The context of a trait is a second ImplContext
\* that shadows the first, and the diagnostics are taken from the first.
impl_pyimpl_tokens(m, withs, gs_order, mb_order) ==
    LET extend_impl == ItemNursery_render(m.ext)
        slots_impl == ItemNursery_render(m.slots)
        own_attrs == installs_of(gs_order, "getset") \o installs_of(mb_order, "member")
                        \o installs_of(extend_impl, "item")
        hooks == installs_of(m.hooks, "hook")
        own_slots == installs_of(slots_impl, "item")
    IN IF to_tokens(m.gs, gs_order).err = "panic" \/ to_tokens(m.mb, mb_order).err = "panic"
       THEN [NoTokens EXCEPT !.status = "panic"]
       ELSE IF m.def.kind = "impl"
       THEN [status |-> "tokens", extend_impl |-> extend_impl, slots_impl |-> slots_impl,
             setup_attrs |-> own_attrs \o hooks
                              \o (IF m.def.is_main THEN with_calls(withs) ELSE <<>>),
             setup_slots |-> own_slots
                              \o (IF m.def.is_main THEN with_calls(withs) ELSE <<>>),
             diags |-> m.errors]
       ELSE [status |-> "tokens", extend_impl |-> extend_impl, slots_impl |-> slots_impl,
             setup_attrs |-> own_attrs \o with_calls(withs) \o hooks,
             setup_slots |-> with_calls(withs) \o own_slots
                              \o (IF m.def.has_extend_slots
                                  THEN <<[t |-> "hook", e |-> "extend_slots"]>> ELSE <<>>),
             diags |-> <<>>]

\* impl_pyimpl is given an impl block or a trait
def_begin(kind, is_main, has_extend_slots) ==
    /\ mac.def.phase = "idle"
    /\ kind = "impl" => ~has_extend_slots
    /\ kind = "trait" => ~is_main
    /\ mac' = [MacIdle EXCEPT !.def = [phase |-> "items", kind |-> kind, is_main |-> is_main,
                                       has_extend_slots |-> has_extend_slots, n |-> 0,
                                       withs |-> <<>>],
                              !.last = Did("begin", "none", {}, <<>>)]
    /\ UNCHANGED MacFrame

\* the next item of the definition is processed
def_item(item) ==
    /\ mac.def.phase = "items"
    /\ mac.def.n < MaxItems
    /\ mac' = [extract_item(mac, item, mac.def.n + 1)
                  EXCEPT !.def.n = @ + 1, !.last = Did("item", "none", {}, <<>>)]
    /\ UNCHANGED MacFrame

\* the items are exhausted and the expansion is produced
def_finish(withs) ==
    /\ mac.def.phase = "items"
    /\ LET g == GetSetNursery_validate(mac.gs)
           b == MemberNursery_validate(mac.mb)
           m == ok_or_push(ok_or_push([mac EXCEPT !.gs = g.n, !.mb = b.n], g.err, 0), b.err, 0)
       IN \E gs_order \in Orders(m.gs.map), mb_order \in Orders(m.mb.map) :
            mac' = [m EXCEPT !.def.phase = "done", !.def.withs = withs,
                             !.tokens = impl_pyimpl_tokens(m, withs, gs_order, mb_order),
                             !.last = Did("finish", "none", {}, <<>>)]
    /\ UNCHANGED MacFrame

NextMacro ==
    \/ \E kind \in {"impl", "trait"}, is_main, has_extend_slots \in BOOLEAN :
            def_begin(kind, is_main, has_extend_slots)
    \/ \E item \in DefItems : def_item(item)
    \/ \E withs \in Caps : def_finish(withs)

SpecMacro == Init /\ [][NextMacro]_vars

\* the positions of a sequence that satisfy a test
Positions(q, Test(_)) == {i \in 1..Len(q) : Test(q[i])}

\* C21: whenever an error was recorded while the items of a definition were
\* processed, the expansion fails or carries a diagnostic for each of them.
C21_RecordedErrorsAreFatal ==
    (mac.def.phase = "done" /\ mac.errors # <<>>) =>
        \/ mac.tokens.status = "panic"
        \/ \A i \in 1..Len(mac.errors) :
              \E j \in 1..Len(mac.tokens.diags) : mac.tokens.diags[j] = mac.errors[i]

\* the same for impl blocks alone
C21_ImplErrorsAreFatal ==
    (mac.def.kind = "impl" /\ mac.def.phase = "done" /\ mac.errors # <<>>) =>
        \/ mac.tokens.status = "panic"
        \/ mac.tokens.diags = mac.errors

\* whether a registry holds an entry under a key
Registered(n, name, cfgs) == \E i \in 1..Len(n) : n[i].name = name /\ n[i].cfgs = cfgs

\* C26: an item offered to the class extension registry or to the slot
\* registry is refused with the duplicate-name error, the registry unchanged,
\* when an entry with the same name and the same guard is stored; otherwise
\* it is appended. No two stored entries ever share (name, guard).
C26_RegistryAdd ==
    /\ [](/\ \A i, j \in 1..Len(mac.ext) :
                (mac.ext[i].name = mac.ext[j].name /\ mac.ext[i].cfgs = mac.ext[j].cfgs)
                    => i = j
          /\ \A i, j \in 1..Len(mac.slots) :
                (mac.slots[i].name = mac.slots[j].name /\ mac.slots[i].cfgs = mac.slots[j].cfgs)
                    => i = j)
    /\ [][\A item \in DefItems :
            (/\ Len(item.attrs) = 1 /\ ~item.late_cfg
             /\ item.attrs[1].t \in {"method", "attr", "slot"}
             /\ item.shape = "fn" \/ (item.shape = "const" /\ item.attrs[1].t # "method")
             /\ def_item(item))
            => LET a == item.attrs[1]
                   slot == a.t = "slot"
                   name == IF slot THEN <<"slot", to_lowercase(a.name)>> ELSE a.name
                   old == IF slot THEN mac.slots ELSE mac.ext
                   now == IF slot THEN mac'.slots ELSE mac'.ext
               IN IF Registered(old, name, item.cfgs)
                  THEN /\ now = old
                       /\ mac'.errors = Append(mac.errors,
                              [err |-> "Duplicated", ident |-> mac.def.n + 1])
                  ELSE /\ Len(now) = Len(old) + 1
                       /\ SubSeq(now, 1, Len(old)) = old
                       /\ now[Len(now)].name = name
                       /\ now[Len(now)].cfgs = item.cfgs
                       /\ now[Len(now)].ident = mac.def.n + 1
                       /\ mac'.errors = mac.errors
         ]_vars

\* a name stored under two guards, and a third item of that name refused
C26_Witness ==
    /\ Len(mac.ext) = 2
    /\ mac.ext[1].name = mac.ext[2].name
    /\ mac.ext[1].cfgs # mac.ext[2].cfgs
    /\ \E i \in 1..Len(mac.errors) : mac.errors[i].err = "Duplicated"

\* two slot installers for one slot: the second was refused
C26_WitnessSlot ==
    /\ Len(mac.slots) = 1
    /\ \E i \in 1..Len(mac.errors) :
          mac.errors[i].err = "Duplicated" /\ mac.errors[i].ident = 2
    /\ mac.def.n = 2
    /\ mac.ext = <<>>

\* whether a rendering lists the entries of a registry in ascending
\* (priority, insertion order)
InRenderOrder(rendered, n) ==
    /\ Len(rendered) = Len(n)
    /\ \A k \in 1..Len(n) : \E i \in 1..Len(rendered) : rendered[i] = n[k]
    /\ \A i, j \in 1..Len(rendered) :
          i < j =>
            LET pi == CHOOSE k \in 1..Len(n) : n[k] = rendered[i]
                pj == CHOOSE k \in 1..Len(n) : n[k] = rendered[j]
            IN \/ rendered[i].sort_order < rendered[j].sort_order
               \/ rendered[i].sort_order = rendered[j].sort_order /\ pi < pj

\* C27: the install code is rendered in ascending (priority, insertion
\* order); attributes have priority 1, slots 2 and methods 5, so every
\* attribute installer comes before every method installer.
C27_RenderOrder ==
    /\ \A i \in 1..Len(mac.ext) :
          mac.ext[i].sort_order = (IF mac.ext[i].t = "attr" THEN 1 ELSE 5)
    /\ \A i \in 1..Len(mac.slots) : mac.slots[i].sort_order = 2
    /\ (mac.def.phase = "done" /\ mac.tokens.status = "tokens") =>
          /\ InRenderOrder(mac.tokens.extend_impl, mac.ext)
          /\ InRenderOrder(mac.tokens.slots_impl, mac.slots)
          /\ \A i, j \in 1..Len(mac.tokens.extend_impl) :
                (mac.tokens.extend_impl[i].t = "attr" /\ mac.tokens.extend_impl[j].t = "method")
                    => i < j

\* a method declared first, an attribute second and a method third are
\* rendered attribute, method, method
C27_Witness ==
    /\ mac.def.phase = "done"
    /\ mac.tokens.status = "tokens"
    /\ Len(mac.ext) = 3
    /\ mac.ext[1].t = "method" /\ mac.ext[2].t = "attr" /\ mac.ext[3].t = "method"
    /\ mac.tokens.extend_impl = <<mac.ext[2], mac.ext[1], mac.ext[3]>>

\* the installers of the definition itself in a class setup, and the calls
\* into its capabilities
IsOwn(step) == step.t \in {"getset", "member", "item"}
IsWith(step) == step.t = "with"

\* C28: a definition that declares capabilities runs, for attributes and
\* for slots alike, its own installers first and then one call per
\* capability in the declared order.
C28_OwnBeforeCapabilities ==
    (mac.def.phase = "done" /\ mac.tokens.status = "tokens" /\ mac.def.withs # <<>>) =>
        /\ SelectSeq(mac.tokens.setup_attrs, IsWith) = with_calls(mac.def.withs)
        /\ SelectSeq(mac.tokens.setup_slots, IsWith) = with_calls(mac.def.withs)
        /\ \A i \in Positions(mac.tokens.setup_attrs, IsOwn),
              j \in Positions(mac.tokens.setup_attrs, IsWith) : i < j
        /\ \A i \in Positions(mac.tokens.setup_slots, IsOwn),
              j \in Positions(mac.tokens.setup_slots, IsWith) : i < j

\* the same for the main impl block of a type alone
C28_MainImplOwnFirst ==
    (mac.def.phase = "done" /\ mac.tokens.status = "tokens" /\ mac.def.withs # <<>>
        /\ mac.def.kind = "impl" /\ mac.def.is_main) =>
        /\ SelectSeq(mac.tokens.setup_attrs, IsWith) = with_calls(mac.def.withs)
        /\ SelectSeq(mac.tokens.setup_slots, IsWith) = with_calls(mac.def.withs)
        /\ \A i \in Positions(mac.tokens.setup_attrs, IsOwn),
              j \in Positions(mac.tokens.setup_attrs, IsWith) : i < j
        /\ \A i \in Positions(mac.tokens.setup_slots, IsOwn),
              j \in Positions(mac.tokens.setup_slots, IsWith) : i < j

\* ------------------------------------------------------ array comparison

\* the elements the comparisons are tried on; the float elements are the
\* bits of 0.0, 1.0 and a NaN
CmpSamples(tc) ==
    CASE tc = "b" -> {0 - 1, 0, 1}
      [] tc = "B" -> {0, 1, 200}
      [] tc = "h" -> {0 - 1, 1, 258}
      [] tc = "H" -> {1, 258}
      [] tc = "u" -> {97, 1114112}
      [] tc = "f" -> {0, 1065353216, 2143289344}

CmpArrays(tc) ==
    {<<>>} \cup {<<x>> : x \in CmpSamples(tc)}
           \cup {<<x, y>> : x \in CmpSamples(tc), y \in CmpSamples(tc)}

PyComparisonOps == {"Lt", "Le", "Eq", "Ne", "Gt", "Ge"}

\* Ord::cmp of two integers
OrdOf(x, y) == IF x < y THEN "Less" ELSE IF x = y THEN "Equal" ELSE "Greater"

\* whether the bits of an f32 (sign bit clear) are a NaN
is_nan(bits) == bits > 255 * Pow2(23)

\* a comparison of elements that compares the bits of floats
partial_cmp_Bits(tc, x, y) == Some(OrdOf(x, y))

\* PartialOrd::partial_cmp of two elements of one kind: the integer kinds
\* and WideChar are totally ordered, an f32 NaN is unordered; floats with
\* the sign bit clear are ordered as their bits
partial_cmp(tc, x, y) ==
    IF tc = "f" /\ (is_nan(x) \/ is_nan(y)) THEN None ELSE Some(OrdOf(x, y))

\* PartialOrd for Vec<T>: the first pair that is not equal decides, the
\* lengths decide when one is a prefix of the other
vec_partial_cmp(tc, a, b) ==
    LET RECURSIVE At(_)
        At(i) == IF i > Min(Len(a), Len(b)) THEN Some(OrdOf(Len(a), Len(b)))
                 ELSE LET c == partial_cmp(tc, a[i], b[i])
                      IN IF c = Some("Equal") THEN At(i + 1) ELSE c
    IN At(1)

\* ArrayContentType::cmp: Ok(partial order) for two arrays of one kind,
\* Err(()) otherwise
ArrayContentType_cmp(tca, a, tcb, b) ==
    IF tca = tcb THEN [ok |-> TRUE, ord |-> vec_partial_cmp(tca, a, b)]
    ELSE [ok |-> FALSE, ord |-> None]

\* ArrayContentType::get with ToPyResult: the object of an element, an error
\* for a WideChar that is no code point
to_pyresult(tc, x) ==
    IF tc = "u"
    THEN IF u32_to_char(x) = None THEN [ok |-> FALSE, obj |-> IntObj(0)]
         ELSE [ok |-> TRUE, obj |-> StrObj(<<x>>)]
    ELSE IF tc = "f" THEN [ok |-> TRUE, obj |-> FloatObj(f32_as_f64(x))]
    ELSE [ok |-> TRUE, obj |-> IntObj(x)]

\* the high word of the double of an int in 0..65535
int_as_f64(n) ==
    IF n = 0 THEN 0
    ELSE LET e == CHOOSE k \in 0..15 : Pow2(k) <= n /\ n < Pow2(k + 1)
         IN (1023 + e) * Pow2(20) + (n - Pow2(e)) * Pow2(20 - e)

\* Python's comparison of two objects: "Less", "Equal", "Greater",
\* "Unordered" (a NaN is involved) or "Unrelated" (a str and a number).
\* The doubles met here have the sign bit clear and a zero low word, so
\* they are ordered as their high words.
ObjCmp(x, y) ==
    LET nan(o) == o.t = "float" /\ o.n > 2047 * Pow2(20)
    IN CASE x.t = "str" /\ y.t = "str" -> OrdOf(x.s[1], y.s[1])
         [] x.t = "str" \/ y.t = "str" -> "Unrelated"
         [] nan(x) \/ nan(y) -> "Unordered"
         [] x.t = "int" /\ y.t = "int" -> OrdOf(x.n, y.n)
         [] x.t = "float" /\ y.t = "float" -> OrdOf(x.n, y.n)
         [] x.t = "int" /\ y.t = "float" ->
                IF x.n < 0 THEN "Less" ELSE OrdOf(int_as_f64(x.n), y.n)
         [] x.t = "float" /\ y.t = "int" ->
                IF y.n < 0 THEN "Greater" ELSE OrdOf(x.n, int_as_f64(y.n))

\* vm.bool_eq: Python's ==
bool_eq(x, y) == ObjCmp(x, y) = "Equal"

\* vm.bool_seq_lt and vm.bool_seq_gt: Some(TRUE) when x < y (x > y),
\* Some(FALSE) when they differ otherwise, None when they are equal;
\* "TypeError" when the objects cannot be ordered
bool_seq_lt(x, y) ==
    CASE ObjCmp(x, y) = "Unrelated" -> "TypeError"
      [] ObjCmp(x, y) = "Less" -> Some(TRUE)
      [] ObjCmp(x, y) = "Equal" -> None
      [] OTHER -> Some(FALSE)
bool_seq_gt(x, y) ==
    CASE ObjCmp(x, y) = "Unrelated" -> "TypeError"
      [] ObjCmp(x, y) = "Greater" -> Some(TRUE)
      [] ObjCmp(x, y) = "Equal" -> None
      [] OTHER -> Some(FALSE)

\* PyComparisonOp::eval_ord
eval_ord(op, ord) ==
    CASE op = "Lt" -> ord = "Less"
      [] op = "Le" -> ord \in {"Less", "Equal"}
      [] op = "Eq" -> ord = "Equal"
      [] op = "Ne" -> ord # "Equal"
      [] op = "Gt" -> ord = "Greater"
      [] op = "Ge" -> ord \in {"Greater", "Equal"}

Answer(val) == [val |-> val, err |-> "none"]
Raise(err) == [val |-> FALSE, err |-> err]

\* PyArray::array_eq
array_eq(tca, a, tcb, b) ==
    LET fast == ArrayContentType_cmp(tca, a, tcb, b)
        RECURSIVE Zip(_)
        Zip(i) ==
            IF i > Min(Len(a), Len(b)) THEN Answer(TRUE)
            ELSE LET x == to_pyresult(tca, a[i])
                     y == to_pyresult(tcb, b[i])
                 IN IF ~x.ok \/ ~y.ok THEN Raise("UnicodeEncodeError")
                    ELSE IF ~bool_eq(x.obj, y.obj) THEN Answer(FALSE)
                    ELSE Zip(i + 1)
    IN IF Len(a) # Len(b) THEN Answer(FALSE)
       ELSE IF fast.ok THEN Answer(fast.ord = Some("Equal"))
       ELSE Zip(1)

\* Comparable for PyArray::cmp, the other operand being an array
Comparable_cmp(tca, a, tcb, b, op) ==
    LET fast == ArrayContentType_cmp(tca, a, tcb, b)
        RECURSIVE Zip(_)
        Zip(i) ==
            IF i > Min(Len(a), Len(b)) THEN Answer(eval_ord(op, OrdOf(Len(a), Len(b))))
            ELSE LET x == to_pyresult(tca, a[i])
                     y == to_pyresult(tcb, b[i])
                 IN IF ~x.ok \/ ~y.ok THEN Raise("UnicodeEncodeError")
                    ELSE LET ret == IF op \in {"Lt", "Le"} THEN bool_seq_lt(x.obj, y.obj)
                                    ELSE bool_seq_gt(x.obj, y.obj)
                         IN IF ret = "TypeError" THEN Raise("TypeError")
                            ELSE IF ret # None THEN Answer(ret[1])
                            ELSE Zip(i + 1)
    IN IF op = "Eq" THEN array_eq(tca, a, tcb, b)
       ELSE IF op = "Ne"
       THEN LET r == array_eq(tca, a, tcb, b)
            IN IF r.err = "none" THEN Answer(~r.val) ELSE r
       ELSE IF fast.ok
       THEN Answer(fast.ord # None /\ eval_ord(op, fast.ord[1]))
       ELSE Zip(1)

\* a new array is compared with another array
richcompare(op, tcb, b) ==
    LET r == Comparable_cmp(typecode, array, tcb, b, op)
    IN /\ res.op = "new"
       /\ out' = [NoOut EXCEPT !.op = "cmp", !.tc = tcb, !.src = b, !.args = <<op>>,
                               !.code = IF r.val THEN 1 ELSE 0, !.err = r.err]
       /\ res' = [op |-> "cmp", err |-> r.err]
       /\ scen' = Track("cmp", IntObj(0))
       /\ UNCHANGED <<typecode, array, exports, concVars, rangeVars, macVars>>

InitCompare ==
    /\ typecode \in Kinds
    /\ array \in CmpArrays(typecode)
    /\ exports = 0
    /\ res = [op |-> "new", err |-> "none"]
    /\ scen = [stage |-> 0, x |-> IntObj(0), snap |-> <<>>]
    /\ out = NoOut
    /\ mac = MacIdle
    /\ ConcIdle
    /\ RangeIdle

NextCompare ==
    \E op \in PyComparisonOps, tcb \in Kinds : \E b \in CmpArrays(tcb) : richcompare(op, tcb, b)

SpecCompare == InitCompare /\ [][NextCompare]_vars

\* the objects of the elements at a position, and whether every element of
\* both arrays has one
ObjAt(tc, v, i) == to_pyresult(tc, v[i]).obj
AllObjects(tc, v) == \A i \in 1..Len(v) : to_pyresult(tc, v[i]).ok

\* C29: two arrays whose elements all have objects are equal exactly when
\* they have the same length and their elements are equal pair by pair,
\* whether or not the kinds are the same (so the fast path for one kind
\* answers as the element-wise comparison does); an ordering comparison of
\* arrays with comparable elements is decided by the first pair that is not
\* equal, and by the lengths when there is none.
C29_ElementwiseComparison ==
    (out.op = "cmp" /\ AllObjects(typecode, array) /\ AllObjects(out.tc, out.src)) =>
        LET op == out.args[1]
            a == array
            b == out.src
            PairEq(i) == ObjCmp(ObjAt(typecode, a, i), ObjAt(out.tc, b, i)) = "Equal"
            equal == Len(a) = Len(b) /\ \A i \in 1..Len(a) : PairEq(i)
            differ == {i \in 1..Min(Len(a), Len(b)) : ~PairEq(i)}
            first == CHOOSE i \in differ : \A j \in differ : i <= j
            comparable == (typecode = "u") = (out.tc = "u")
        IN /\ op = "Eq" => (out.err = "none" /\ out.code = (IF equal THEN 1 ELSE 0))
           /\ op = "Ne" => (out.err = "none" /\ out.code = (IF equal THEN 0 ELSE 1))
           /\ (op \notin {"Eq", "Ne"} /\ comparable) =>
                /\ out.err = "none"
                /\ out.code =
                     (IF differ # {}
                      THEN (IF eval_ord(op, ObjCmp(ObjAt(typecode, a, first), ObjAt(out.tc, b, first)))
                            THEN 1 ELSE 0)
                      ELSE (IF eval_ord(op, OrdOf(Len(a), Len(b))) THEN 1 ELSE 0))

\* an int array and a float array of two equal elements compare equal
C29_Witness ==
    /\ out.op = "cmp"
    /\ out.args = <<"Eq">>
    /\ typecode = "h" /\ out.tc = "f"
    /\ Len(array) = 2
    /\ out.code = 1

\* a shorter array of another kind that is a prefix of the longer is less
C29_WitnessPrefix ==
    /\ out.op = "cmp"
    /\ out.args = <<"Lt">>
    /\ typecode = "B" /\ out.tc = "h"
    /\ Len(array) = 1 /\ Len(out.src) = 2
    /\ array[1] = out.src[1]
    /\ out.code = 1

\* ------------------------------------------- range: iterators, continued

\* C31: once next has reported the end of the iteration, every later next
\* reports it again, whatever next and __setstate__ calls come between.
C31_EndIsFinal == [][(it.ended /\ range_next) => it'.last = None]_vars

\* a cursor at or past the length stays there when next is called, so that
\* only a __setstate__ with an index below the length could rewind
C31_CursorStaysPastEnd ==
    [][(it.index >= it.length /\ range_next) => it'.index >= it'.length]_vars

\* C32: an iterator in the fixed-width representation computes, for every
\* index below its length, start + index * step without leaving the machine
\* word in the cast of the index, in the product or in the sum, and the
\* value is the one the arbitrary-precision iterator yields.
C32_FixedWidthExact ==
    it.rep = "fixed" =>
        \A index \in 0..(it.length - 1) :
            /\ as_isize(index) = index
            /\ to_isize(as_isize(index) * it.step) # None
            /\ to_isize(it.start + as_isize(as_isize(index) * it.step)) # None
            /\ next_outcome([it EXCEPT !.index = index, !.checks = FALSE]).value
                  = Some(it.range.start + index * it.range.step)

\* the values alone: without overflow checks the wrapped computation gives
\* the value of the arbitrary-precision iterator
C32_FixedWidthSameValues ==
    it.rep = "fixed" =>
        /\ it.length = compute_length(it.range)
        /\ \A index \in 0..(it.length - 1) :
              next_outcome([it EXCEPT !.index = index, !.checks = FALSE]).value
                  = Some(it.range.start + index * it.range.step)

\* ------------------------------- array: slice assignment under an export

NextAssignExported ==
    \/ \E x \in Objs : append(x)
    \/ as_buffer
    \/ release
    \/ \E needle \in SliceNeedles, value \in AssignValues : __setitem__(needle, value)

SpecAssignExported == Init /\ [][NextAssignExported]_vars

\* C34: while a view of the array is exported a slice assignment keeps the
\* length; it succeeds exactly when the slice is well formed and the value
\* is an array of the same kind with as many elements as the slice selects,
\* writing them to the selected
\* positions and leaving every other element alone; otherwise it fails and
\* the array is as it was.
C34_ExportedSliceAssignment ==
    [][\A needle \in SliceNeedles, value \in AssignValues :
        (/\ exports > 0
         /\ __setitem__(needle, value))
        => LET ps == adjust_indices(needle.s, Len(array))
               items == IF value.t = "self" THEN ArrObj(typecode, array) ELSE value
               fits == /\ SequenceIndexErr(needle) = "none"
                       /\ items.t = "array"
                       /\ items.tc = typecode
                       /\ Len(items.arr) = Len(ps)
           IN /\ Len(array') = Len(array)
              /\ res'.err = "none" <=> fits
              /\ ~fits => array' = array
              /\ fits =>
                    /\ \A j \in 1..Len(ps) : array'[ps[j] + 1] = items.arr[j]
                    /\ \A k \in 1..Len(array) :
                          (k - 1) \notin SeqRange(ps) => array'[k] = array[k]]_vars

\* an exported array of two elements after a slice assignment that replaced
\* both
C34_Witness ==
    /\ res = [op |-> "__setitem__", err |-> "none"]
    /\ exports > 0
    /\ typecode = "B" /\ array = <<200, 1>>

\* an exported array after a slice assignment of the wrong length
C34_WitnessRefused ==
    /\ res = [op |-> "__setitem__", err |-> "BufferError"]
    /\ exports > 0
    /\ Len(array) = 1

\* ------------------------------------------- range: reversed iteration

\* one range, iterated from its last element
NextReversed ==
    \/ \E checks \in BOOLEAN : range_reversed(checks)
    \/ range_next

SpecReversed == InitSlice /\ [][NextReversed]_vars

\* what C35 asks of an iterator made by __reversed__: the k-th value it
\* returns is the k-th element of the range counted from the last, it
\* returns as many values as the range has elements, and no call fails
ReversedSoFar ==
    LET len == compute_length(it.range)
    IN /\ ~it.panicked
       /\ it.n <= len
       /\ it.ended => it.n = len
       /\ (~it.ended /\ it.n >= 1) => it.last = get(it.range, len - it.n)

\* C35: for every range, in either representation, the iterator returned
\* by __reversed__ yields the elements of the range from the last to the
\* first, as many as the range has.
C35_ReversedIsReverse == it.rep # "none" => ReversedSoFar

\* the same for ranges no longer than the cursor can count, iterated in a
\* build without overflow checks
C35_ReversedBelowWrap ==
    (it.rep # "none" /\ ~it.checks /\ compute_length(it.range) <= UsizeMax) => ReversedSoFar

\* ------------------------------------------- range: capturing an iterator

\* the elements iterator i runs over, in the order it returns them: those of
\* its range, from the last one when it was made by __reversed__
IterElements(i) ==
    LET len == compute_length(i.range)
    IN [k \in 1..len |->
            IF i.step = i.range.step THEN get(i.range, k - 1)[1]
                                     ELSE get(i.range, len - k)[1]]

\* the elements i has not returned yet
NotYetReturned(i) ==
    IF i.ended THEN <<>>
    ELSE SubSeq(IterElements(i), i.n + 1, compute_length(i.range))

\* builtins.iter(r) followed by __setstate__(index): what unpickling the
\* tuple of __reduce__ does
Resumed(r, index, checks) ==
    LET fresh == iter(r, checks)
    IN [fresh EXCEPT !.index = range_state(fresh.length, index)]

MaxDrain == 8

\* the values iterator i returns up to its first StopIteration; done is
\* whether that StopIteration came without a failure within MaxDrain calls
RECURSIVE DrainToEnd(_, _)
DrainToEnd(i, fuel) ==
    LET o == next_outcome(i)
    IN IF fuel = 0 \/ o.panic THEN [vals |-> <<>>, done |-> FALSE]
       ELSE IF o.value = None THEN [vals |-> <<>>, done |-> TRUE]
       ELSE LET rest == DrainToEnd([i EXCEPT !.index = o.index], fuel - 1)
            IN [vals |-> <<o.value[1]>> \o rest.vals, done |-> rest.done]

\* what C36 asks of one __reduce__ call on a live iterator
CapturedFaithfully ==
    LET r == ra'
        d == DrainToEnd(Resumed(r, rres'.n[1], it.checks), MaxDrain)
    IN /\ r = Range(it.start, it.start + it.length * it.step, it.step)
       /\ compute_length(r) = compute_length(it.range)
       /\ [k \in 1..compute_length(r) |-> get(r, k - 1)[1]] = IterElements(it)
       /\ d.done
       /\ d.vals = NotYetReturned(it)

\* C36: __reduce__ of a range iterator returns the range (start, start +
\* length * step, step) and the cursor; that range has the length and the
\* elements of the iterated one, and a fresh iterator over it resumed at the
\* cursor returns exactly the elements not yet returned.
C36_CaptureResumes ==
    [][(~it.panicked /\ range_reduce) => CapturedFaithfully]_vars

\* the same for ranges no longer than the cursor can count, in a build
\* without overflow checks, while the cursor has not wrapped past its end
C36_CaptureResumesBelowWrap ==
    [][(/\ ~it.panicked
        /\ ~it.checks
        /\ compute_length(it.range) <= UsizeMax
        /\ it.ended => it.index >= it.length
        /\ range_reduce) => CapturedFaithfully]_vars

\* the captured range alone: for every live iterator it has the length and
\* the elements of the iterated range
C36_CapturedRangeSame ==
    [][(~it.panicked /\ range_reduce) =>
        /\ ra' = Range(it.start, it.start + it.length * it.step, it.step)
        /\ compute_length(ra') = compute_length(it.range)
        /\ [k \in 1..compute_length(ra') |-> get(ra', k - 1)[1]] = IterElements(it)
        /\ rres'.n = <<it.index>>]_vars

\* ------------------------------ nursery: a guarded getter and its setter

\* the pairs (g, s) of entries of one name: g a guarded entry with a getter,
\* s the unguarded entry, holding a setter or a deleter and no getter
GuardedGetterWithSetter(map) ==
    {p \in map \X map :
        /\ p[1].name = p[2].name
        /\ p[1].cfgs # <<>> /\ p[1].get # None
        /\ p[2].cfgs = <<>> /\ p[2].get = None}

\* C37: entries are keyed by (name, guard) and a setter or deleter is only
\* ever stored under the empty guard: adding one leaves every guarded entry
\* as it was and puts the accessor into the unguarded entry of the name,
\* which gets no getter from a guarded one; validate then reports that
\* entry as missing its getter and does not mark the nursery validated.
C37_GuardedGetterNeverPairs ==
    /\ [][\A a \in GsAdds :
            (/\ mac'.last.op = "gs_add"
             /\ mac'.last.err = "none"
             /\ a[3] # "Get"
             /\ gs_add(a[1], a[2], a[3], a[4]))
            => /\ a[2] = <<>>
               /\ \A g \in mac.gs.map : g.cfgs # <<>> => g \in mac'.gs.map
               /\ \A g \in mac'.gs.map : g.cfgs # <<>> => g \in mac.gs.map
               /\ \E e \in GsAt(mac'.gs.map, a[1], <<>>) :
                     /\ GsFunc(e, a[3]) = Some(a[4])
                     /\ GsAt(mac.gs.map, a[1], <<>>) = {} => e.get = None
         ]_vars
    /\ [][(GuardedGetterWithSetter(mac.gs.map) # {} /\ gs_validate)
            => /\ mac'.last.err = "MissingGetter"
               /\ ~mac'.gs.validated
               /\ \A p \in GuardedGetterWithSetter(mac.gs.map) :
                     [name |-> p[2].name, key |-> <<>>,
                      at |-> IF p[2].set # None THEN p[2].set ELSE p[2].del]
                         \in mac'.last.errs
         ]_vars

\* validate has reported the setter of a name whose getter is guarded
C37_Witness ==
    /\ mac.last.op = "gs_validate"
    /\ mac.last.err = "MissingGetter"
    /\ \E p \in GuardedGetterWithSetter(mac.gs.map) :
            p[2].set # None /\ p[2].del = None

\* --------------------------------- array: the numbers of the format codes

\* the values of MachineFormatCode
MachineFormatCodes ==
    {Fmt("Int8", signed, FALSE) : signed \in BOOLEAN}
        \cup {Fmt(kind, signed, big_endian) :
                 kind \in {"Int16", "Int32", "Int64"},
                 signed \in BOOLEAN, big_endian \in BOOLEAN}
        \cup {Fmt(kind, FALSE, big_endian) :
                 kind \in {"Ieee754Float", "Ieee754Double", "Utf16", "Utf32"},
                 big_endian \in BOOLEAN}

\* the codes the reconstructor is tried with here: those around 0..21 and
\* ints that fit no u8
FormatCodes == Codes \cup {127, 128, 255, 256, 0 - 256}

\* the reconstructor called once with any of these codes
NextFormats ==
    \E tc \in IntKinds \cup {"u"}, code \in FormatCodes, bytes \in ItemStrings :
        res.op = "new" /\ _array_reconstructor(tc, code, bytes)

SpecFormats == Init /\ [][NextFormats]_vars

\* C38: the numbering of the machine formats is one-to-one between 0..21
\* and the variants: every variant has a number in 0..21 that decodes to
\* the same variant, every number in 0..21 decodes to a variant whose
\* number it is, and every other number is rejected.
C38_CodeBijection ==
    /\ \A f \in MachineFormatCodes :
            u8_from(f) \in 0..21 /\ try_from(u8_from(f)) = Some(f)
    /\ \A f, g \in MachineFormatCodes : u8_from(f) = u8_from(g) => f = g
    /\ res.op = "_array_reconstructor" =>
            LET code == out.args[2]
                d == try_from_borrowed_object(code)
            IN IF code \in 0..21
               THEN /\ d # None
                    /\ d[1] \in MachineFormatCodes
                    /\ u8_from(d[1]) = code
               ELSE d = None /\ res.err = "ValueError"

\* the reconstructor has decoded the last number, 21
C38_Witness ==
    /\ res = [op |-> "_array_reconstructor", err |-> "none"]
    /\ out.args[2] = 21
    /\ try_from(21) = Some(Fmt("Utf32", FALSE, TRUE))

\* the reconstructor has rejected the first number past the last
C38_WitnessRejected ==
    /\ res = [op |-> "_array_reconstructor", err |-> "ValueError"]
    /\ out.args[2] = 22

\* --------------------------------------- array: two arrays, two threads

\* two arrays of signed bytes, a and b, each behind its own PyRwLock; here
\* array and lock hold one value per array, and pc[t] is the call thread t
\* is in: the method, its receiver and its argument, how far it has come,
\* and the copy or the length it has read
ArrayNames == {"a", "b"}
PairIdle == [at |-> "idle", op |-> "none", zelf |-> "a", other |-> "a", items |-> <<>>]
PairCalls ==
    ({"extend", "__iadd__", "__setitem__"} \X ArrayNames \X ArrayNames)
        \cup {<<"__eq__", "a", "b">>, <<"__eq__", "b", "a">>}

InitPair ==
    /\ typecode = "b"
    /\ array \in {[a |-> x, b |-> <<1>>] : x \in {<<>>, <<1>>}}
    /\ exports = 0
    /\ res = [op |-> "new", err |-> "none"]
    /\ scen = [stage |-> 0, x |-> IntObj(0), snap |-> <<>>]
    /\ out = NoOut
    /\ mac = MacIdle
    /\ pc = [t \in Threads |-> PairIdle]
    /\ lock = [n \in ArrayNames |-> [writer |-> 0, readers |-> {}]]
    /\ views = [t \in Threads |-> 0]
    /\ RangeIdle

NoLock == [name |-> "none", mode |-> "none"]

\* the lock a call asks for next, in the order the method takes its guards:
\* extend and __iadd__ take zelf.try_resizable() and then other.read();
\* a slice assignment takes value.read() (for the receiver itself a read
\* that ends with the clone) and then zelf.try_resizable(); array_eq reads
\* the two lengths and then takes self.read() and other.read()
Wants(p) ==
    CASE p.op \in {"extend", "__iadd__"} /\ p.at = "call" ->
            [name |-> p.zelf, mode |-> "write"]
      [] p.op \in {"extend", "__iadd__"} /\ p.at = "resizable" /\ p.zelf # p.other ->
            [name |-> p.other, mode |-> "read"]
      [] p.op = "__setitem__" /\ p.at = "call" /\ p.zelf = p.other ->
            [name |-> p.zelf, mode |-> "peek"]
      [] p.op = "__setitem__" /\ p.at = "call" /\ p.zelf # p.other ->
            [name |-> p.other, mode |-> "read"]
      [] p.op = "__setitem__" /\ p.at = "items" ->
            [name |-> p.zelf, mode |-> "write"]
      [] p.op = "__eq__" /\ p.at = "call" -> [name |-> p.zelf, mode |-> "peek"]
      [] p.op = "__eq__" /\ p.at = "len" -> [name |-> p.other, mode |-> "peek"]
      [] p.op = "__eq__" /\ p.at = "lens" -> [name |-> p.zelf, mode |-> "read"]
      [] p.op = "__eq__" /\ p.at = "read" -> [name |-> p.other, mode |-> "read"]
      [] OTHER -> NoLock

\* where a call is once the lock it asked for is granted
After(p) ==
    CASE p.op \in {"extend", "__iadd__"} ->
            (IF p.at = "call" THEN "resizable" ELSE "iadd")
      [] p.op = "__setitem__" -> (IF p.at = "call" THEN "items" ELSE "setitem")
      [] p.op = "__eq__" ->
            (CASE p.at = "call" -> "len"
               [] p.at = "len" -> "lens"
               [] p.at = "lens" -> "read"
               [] OTHER -> "reads")

\* whether the PyRwLock of an array grants a request
Grants(l, mode) ==
    IF mode = "write" THEN l.writer = 0 /\ l.readers = {} ELSE l.writer = 0

\* a thread calls a method of one array with an array as its argument
pair_call(t, op, zelf, other) ==
    /\ pc[t].at = "idle"
    /\ op \in {"extend", "__iadd__"} => Len(array[zelf]) + Len(array[other]) <= MaxLen
    /\ pc' = [pc EXCEPT ![t] = [at |-> "call", op |-> op, zelf |-> zelf,
                                other |-> other, items |-> <<>>]]
    /\ UNCHANGED <<typecode, array, exports, res, scen, lock, views>>
    /\ UNCHANGED ConcFrame

\* PyArray::write through try_resizable: the write guard is kept, no view
\* being exported
pair_write(t) ==
    LET w == Wants(pc[t])
    IN /\ w.mode = "write"
       /\ Grants(lock[w.name], "write")
       /\ try_resizable_opt(exports)
       /\ lock' = [lock EXCEPT ![w.name].writer = t]
       /\ pc' = [pc EXCEPT ![t].at = After(pc[t])]
       /\ UNCHANGED <<typecode, array, exports, res, scen, views>>
       /\ UNCHANGED ConcFrame

\* PyArray::read, the guard being kept until the method returns
pair_read(t) ==
    LET w == Wants(pc[t])
    IN /\ w.mode = "read"
       /\ Grants(lock[w.name], "read")
       /\ lock' = [lock EXCEPT ![w.name].readers = @ \cup {t}]
       /\ pc' = [pc EXCEPT ![t].at = After(pc[t])]
       /\ UNCHANGED <<typecode, array, exports, res, scen, views>>
       /\ UNCHANGED ConcFrame

\* PyArray::read for one expression: zelf.read().clone() of a slice
\* assignment from the receiver itself, and __len__ of array_eq, which
\* returns False at once when the two lengths differ
pair_peek(t) ==
    LET w == Wants(pc[t])
        p == pc[t]
    IN /\ w.mode = "peek"
       /\ Grants(lock[w.name], "read")
       /\ IF p.op = "__eq__" /\ p.at = "len" /\ p.items # <<Len(array[w.name])>>
          THEN /\ pc' = [pc EXCEPT ![t] = PairIdle]
               /\ res' = [op |-> "__eq__", err |-> "none", val |-> FALSE]
          ELSE /\ pc' = [pc EXCEPT ![t].at = After(p),
                                   ![t].items = IF p.op = "__eq__"
                                                THEN <<Len(array[w.name])>>
                                                ELSE array[w.name]]
               /\ UNCHANGED res
       /\ UNCHANGED <<typecode, array, exports, scen, lock, views>>
       /\ UNCHANGED ConcFrame

\* the method does its work under the guards it holds and returns, which
\* drops them
pair_return(t) ==
    LET p == pc[t]
        z == array[p.zelf]
        o == array[p.other]
        r == CASE p.at = "resizable" -> imul(z, 2)
               [] p.at = "iadd" -> iadd(typecode, z, typecode, o)
               [] p.at = "setitem" ->
                    setitem_by_slice(typecode, z, Slice(None, None, None), typecode,
                                     IF p.zelf = p.other THEN p.items ELSE o)
               [] OTHER -> Done(z)
        e == array_eq(typecode, z, typecode, o)
        Drop(l) == [writer |-> IF l.writer = t THEN 0 ELSE l.writer,
                    readers |-> l.readers \ {t}]
    IN /\ \/ p.at = "resizable" /\ p.zelf = p.other
          \/ p.at \in {"iadd", "setitem", "reads"}
       /\ Len(r.arr) <= MaxLen
       /\ array' = [array EXCEPT ![p.zelf] = r.arr]
       /\ res' = IF p.op = "__eq__"
                 THEN [op |-> "__eq__", err |-> e.err, val |-> e.val]
                 ELSE [op |-> p.op, err |-> r.err]
       /\ lock' = [n \in ArrayNames |-> Drop(lock[n])]
       /\ pc' = [pc EXCEPT ![t] = PairIdle]
       /\ UNCHANGED <<typecode, exports, scen, views>>
       /\ UNCHANGED ConcFrame

NextPair ==
    \E t \in Threads :
        \/ \E c \in PairCalls : pair_call(t, c[1], c[2], c[3])
        \/ pair_write(t)
        \/ pair_read(t)
        \/ pair_peek(t)
        \/ pair_return(t)

SpecPair == InitPair /\ [][NextPair]_vars

\* a thread waits: it asks for a lock that is not granted
Waits(t) ==
    /\ Wants(pc[t]) # NoLock
    /\ ~Grants(lock[Wants(pc[t]).name],
               IF Wants(pc[t]).mode = "write" THEN "write" ELSE "read")

\* thread t holds a guard of the lock thread u asks for
HoldsWanted(t, u) ==
    LET l == lock[Wants(pc[u]).name]
    IN l.writer = t \/ t \in l.readers

\* C33: the operations that take the locks of two arrays never leave two
\* threads waiting for one another, and an operation whose source is its
\* own receiver never waits for a guard it holds itself.
C33_NoMutualWait ==
    \A t, u \in Threads :
        ~(/\ Waits(t) /\ Waits(u)
          /\ HoldsWanted(u, t) /\ HoldsWanted(t, u))

\* the second half alone: no thread waits for a lock it holds a guard of
C33_NoSelfWait ==
    \A t \in Threads : Waits(t) => ~HoldsWanted(t, t)

\* two threads that wait for one another stay where they are for ever
C33_MutualWaitIsFinal ==
    [][\A t, u \in Threads :
         (/\ t # u /\ Waits(t) /\ Waits(u)
          /\ HoldsWanted(u, t) /\ HoldsWanted(t, u))
            => pc'[t] = pc[t] /\ pc'[u] = pc[u]]_vars

\* ------------------------------------- macro: the attributes of one item

\* the attributes an item may carry, by their path: a guard, an item
\* attribute, an attribute of the macros that names no item, any other
\* single identifier, and a path of two segments
AttrPaths == {"cfg", "pymethod", "pyclass", "doc", "rustfmt::skip"}
MaxAttrs == 3
MaxScan == 5
AttrLists ==
    {<<>>} \cup UNION {[1..n -> AttrPaths] : n \in 1..MaxAttrs}

\* Attribute::get_ident: the identifier of a path that is a single one
get_ident(attr) == IF attr = "rustfmt::skip" THEN None ELSE Some(attr)

\* the names of ALL_ALLOWED_NAMES among AttrPaths
ALL_ALLOWED_NAMES == {"pymethod", "pyclass"}

\* AttrName::from_str
AttrName_from_str(str) ==
    IF str \in {"pymethod", "pyclassmethod", "pystaticmethod", "pygetset", "pyslot",
                "pyattr", "extend_class", "pymember"}
    THEN Some(str) ELSE None

\* attrs_to_content_items is called on a list of attributes: here mac holds
\* the list, the position of the iterator (pos: the next attribute), the loop
\* the call is in, cfgs and result, the error it returned, and the number of
\* loop iterations made (counted up to MaxScan)
InitScan ==
    /\ typecode = "b"
    /\ array = <<>>
    /\ exports = 0
    /\ res = [op |-> "new", err |-> "none"]
    /\ scen = [stage |-> 0, x |-> IntObj(0), snap |-> <<>>]
    /\ out = NoOut
    /\ mac \in {[attrs |-> l, pos |-> 1, phase |-> "cfgs", cfgs |-> <<>>,
                 result |-> <<>>, err |-> "none", steps |-> 0] : l \in AttrLists}
    /\ ConcIdle
    /\ RangeIdle

\* one iteration of the first loop (while let Some(..) = iter.peek()): an
\* attribute without a single identifier goes on to the next iteration with
\* the iterator where it was
scan_cfgs ==
    /\ mac.phase = "cfgs"
    /\ mac.steps < MaxScan
    /\ LET attr == mac.attrs[mac.pos]
           counted == [mac EXCEPT !.steps = @ + 1]
       IN mac' =
            IF mac.pos > Len(mac.attrs) THEN [mac EXCEPT !.phase = "items"]
            ELSE IF get_ident(attr) = None THEN counted
            ELSE IF get_ident(attr)[1] = "cfg"
            THEN [counted EXCEPT !.cfgs = Append(@, mac.pos), !.pos = @ + 1]
            ELSE IF get_ident(attr)[1] \in ALL_ALLOWED_NAMES
            THEN [counted EXCEPT !.phase = "items"]
            ELSE [counted EXCEPT !.pos = @ + 1]
    /\ UNCHANGED MacFrame

\* one iteration of the second loop (for (i, attr) in iter), and the return
\* when the iterator is at its end
scan_items ==
    /\ mac.phase = "items"
    /\ mac.steps < MaxScan
    /\ LET attr == mac.attrs[mac.pos]
           counted == [mac EXCEPT !.steps = @ + 1, !.pos = @ + 1]
       IN mac' =
            IF mac.pos > Len(mac.attrs) THEN [mac EXCEPT !.phase = "done"]
            ELSE IF get_ident(attr) = None THEN counted
            ELSE IF get_ident(attr)[1] = "cfg"
            THEN [counted EXCEPT !.phase = "done", !.err = "must be placed under cfgs"]
            ELSE IF AttrName_from_str(get_ident(attr)[1]) = None
            THEN IF get_ident(attr)[1] \in ALL_ALLOWED_NAMES
                 THEN [counted EXCEPT !.phase = "done", !.err = "doesn't accept"]
                 ELSE counted
            ELSE [counted EXCEPT
                    !.result = Append(@, [index |-> mac.pos - 1,
                                          attr_name |-> get_ident(attr)[1]])]
    /\ UNCHANGED MacFrame

NextScan == scan_cfgs \/ scan_items

SpecScan == InitScan /\ [][NextScan]_vars

SpecScanFair == SpecScan /\ WF_vars(NextScan)

\* C39: every iteration of the leading scan moves the iterator past the
\* attribute it has looked at, or ends the scan.
C39_ScanAdvances ==
    [][scan_cfgs => (mac'.pos > mac.pos \/ mac'.phase # "cfgs")]_vars

\* the call returns, for every list of attributes
C39_Terminates == <>(mac.phase = "done")

\* the call returns for every list in which every attribute ahead of the
\* first item attribute has a single identifier
C39_TerminatesPastIdents ==
    (\A k \in 1..Len(mac.attrs) :
        (\A j \in 1..(k - 1) : mac.attrs[j] \notin ALL_ALLOWED_NAMES)
            => get_ident(mac.attrs[k]) # None \/ mac.attrs[k] \in ALL_ALLOWED_NAMES)
        => <>(mac.phase = "done")


====
